---- MODULE Spec2Model ----
(***************************************************************************)
(* Agent swarm facade (src/src/lib/agentic-api.ts) over the agent registry *)
(* and the task scheduler.  The facade is translated from its source; the  *)
(* registry (./agents/agent-registry) and the scheduler                    *)
(* (./agents/orchestrator) are imported by the facade but their files are  *)
(* not part of the source tree, so they follow spec.md 4.1 and 4.2.        *)
(* The system bootstrap (src/src/lib/system-bootstrap.ts) is translated    *)
(* from its source: boot(), the coordination record behind                 *)
(* COORDINATION_FILE, the heartbeat and peer-poll callbacks and the        *)
(* enhancement pipeline.  The OMEGA orchestrator                           *)
(* (src/src/lib/omega-orchestrator.ts) is translated from its source:      *)
(* initialize(), the evolution timer and executeEvolutionCycle; the        *)
(* experience database it stores into (./memory/experience-database) is    *)
(* not part of the source tree and keeps every record it is given.         *)
(***************************************************************************)
EXTENDS Integers, Sequences, FiniteSets, TLC

\* ------------------------------------------------------------- bounds
NumAgents == 2
NumTasks == 2
NumDomains == 2
MaxPriority == 1
MaxRetriesIn == 1
MaxBatch == 2
MaxHealthAgents == 10
MaxResults == 2
MaxDuration == 2
MaxTicks == 2
MaxPollTicks == 2
MaxRestarts == 2
NumInitializeCalls == 3
NumSockets == 2
MaxEvents == 5

\* maxRetries the facade passes when the submission gives none (line 115)
DefaultMaxRetries == 3

AgentIds == 1..NumAgents
InitializeCalls == 1..NumInitializeCalls
TaskIds == 1..NumTasks
Domains == 1..NumDomains
Priorities == 1..MaxPriority

\* an optional value (a field that may be undefined): <<>> or <<x>>
Nothing == <<>>
Some(x) == <<x>>

AgentStatuses == {"idle", "busy", "offline"}
TerminalStatuses == {"completed", "failed", "timeout", "cancelled"}
MaxRetriesInputs == {Nothing} \cup {Some(n) : n \in 0..MaxRetriesIn}

VARIABLES
    registry,       \* agent id -> [status, domain, priority], registered agents only
    taskRecords,    \* task id -> TaskRecord [status, assignedAgent, error]
    executing,      \* task id -> the executeTask call in flight for it
    submitResult,   \* task id -> the TaskStatus its submitTask call returned
    batchList,      \* the task ids of the batchSubmitTasks call
    batchStatuses,  \* its taskStatuses array
    health,         \* what the last getSwarmHealth call returned
    taskResults,    \* the array orchestrator.getTaskResults() returns
    agentStatistics,\* what the last getAgentStatistics call returned
    queueStatus,    \* what the last getTaskQueueStatus call returned
    coordinationFile, \* the record fetch(COORDINATION_FILE) yields, Nothing if it fails
    printed,        \* the record writeCoordinationFile printed last
    files,          \* path -> content, the files behind /api/files/read and /write
    now,            \* Date.now()
    boot,           \* where the boot() call stands, and isBooted
    conflictReport, \* what the last checkForConflicts logged
    changes,        \* what each update method last set in its copy of the record,
                    \* and the artifacts applyEnhancements was called for
    poll,           \* where the peer-poll callback stands, and its locals
    omega,          \* the OmegaOrchestrator singleton's fields and its timers
    initializeCalls,\* call -> where that initialize() call stands
    cycles,         \* the executeEvolutionCycle calls so far, with their locals
    experiences,    \* the records experienceDatabase.storeExperience has stored
    systemAnalysis, \* the SystemPerformance handed to the identify step
    optimizationOpportunities, \* what identifyOptimizationOpportunities returned
    sockets,        \* socket id -> whether the chat server has seen it connect
    users,          \* the chat server's users map, socket id -> User
    emitted,        \* the events the chat server has emitted, in order
    received        \* the events the chat server's handlers have run for, in order

\* the variables of the statistics calls
statsVars == <<taskResults, agentStatistics, queueStatus>>

\* the variables of the system bootstrap (src/src/lib/system-bootstrap.ts)
bootVars == <<coordinationFile, printed, files, now, boot, conflictReport, changes,
              poll>>

\* the variables of the facade
facadeVars == <<registry, taskRecords, executing, submitResult, batchList,
                batchStatuses, health, statsVars>>

\* the variables of the OMEGA orchestrator (src/src/lib/omega-orchestrator.ts)
omegaVars == <<omega, initializeCalls, cycles, experiences, systemAnalysis,
               optimizationOpportunities>>

\* the variables of the example chat server (src/examples/websocket/server.ts)
chatVars == <<sockets, users, emitted, received>>

vars == <<facadeVars, bootVars, omegaVars, chatVars>>

\* the variables no scheduler or registry operation touches
others == <<health, statsVars, bootVars, omegaVars, chatVars>>

Put(f, k, v) == [x \in DOMAIN f \cup {k} |-> IF x = k THEN v ELSE f[x]]
Drop(f, k) == [x \in DOMAIN f \ {k} |-> f[x]]

\* ------------------------------------------------------------- registry
\* register: idempotent upsert keyed by id; a new agent starts idle
RegistryRegister(reg, a, dom, prio) ==
    IF a \in DOMAIN reg
    THEN [reg EXCEPT ![a].domain = dom, ![a].priority = prio]
    ELSE Put(reg, a, [status |-> "idle", domain |-> dom, priority |-> prio])

\* unregister: removes the agent; a no-op if absent
RegistryUnregister(reg, a) == Drop(reg, a)

\* updateStatus fails with NotFound if the id is absent
RegistryHas(reg, a) == a \in DOMAIN reg

RegistryUpdateStatus(reg, a, s) == [reg EXCEPT ![a].status = s]

\* ------------------------------------------------------------- scheduler
\* (mutation) the status of the agent is not looked at
CandidatesOfAnyStatus(reg, dom) == {a \in DOMAIN reg : reg[a].domain = dom}

\* step 1: domain exact match, status idle
Candidates(reg, dom) ==
    {a \in DOMAIN reg : reg[a].domain = dom /\ reg[a].status = "idle"}

\* step 2: highest priority first; the tie-break among those (fewest completed tasks
\* in a window the scheduler keeps) is left open: any of them may be picked
Preferred(reg, dom) ==
    {a \in Candidates(reg, dom) :
        \A b \in Candidates(reg, dom) : reg[b].priority <= reg[a].priority}

\* release: the agent goes back to idle (nothing to do once it is unregistered)
Release(reg, holder) ==
    IF holder # Nothing /\ RegistryHas(reg, holder[1])
    THEN RegistryUpdateStatus(reg, holder[1], "idle")
    ELSE reg

\* step 4: mark the chosen agent busy
MarkBusy(reg, a) == RegistryUpdateStatus(reg, a, "busy")

\* the result object executeTask / getTaskResult hand to the facade
TaskResult(rec) == [success |-> rec.status = "completed", error |-> rec.error]

IsTerminal(t) == t \in DOMAIN taskRecords /\ taskRecords[t].status \in TerminalStatuses
InProgress(t) == t \in DOMAIN taskRecords /\ taskRecords[t].status = "in_progress"
Running(t) == InProgress(t) /\ taskRecords[t].assignedAgent # Nothing

\* ------------------------------------------------------------- facade
\* submitTask line 115: submission.maxRetries || 3
FacadeMaxRetries(m) == IF m = Nothing \/ m[1] = 0 THEN DefaultMaxRetries ELSE m[1]

\* (mutation) the result object itself is tested, not result.success
FacadeTaskStatusOfTruthy(t, result) ==
    [taskId |-> t, status |-> "completed", error |-> result.error]

\* submitTask lines 118-128, getTaskStatus lines 141-151
FacadeTaskStatus(t, result) ==
    [taskId |-> t,
     status |-> IF result.success THEN "completed" ELSE "failed",
     error |-> result.error]

\* getTaskStatus(taskId), lines 138-152
GetTaskStatus(t) == FacadeTaskStatus(t, TaskResult(taskRecords[t]))

Returned(t) == t \in DOMAIN submitResult

\* the task ends: its record is final, executeTask returns and submitTask hands the
\* facade's TaskStatus to its caller
Finish(t, status, error) ==
    /\ taskRecords' = Put(taskRecords, t,
            [status |-> status, assignedAgent |-> Nothing, error |-> error])
    /\ executing' = Drop(executing, t)
    /\ submitResult' = Put(submitResult, t,
            FacadeTaskStatus(t, TaskResult([status |-> status, error |-> error])))

\* submitTask lines 103-116: the task and the options executeTask is called with
NewCall(dom, mr) ==
    [domain |-> dom, maxRetries |-> mr, retriesLeft |-> FacadeMaxRetries(mr),
     dispatches |-> 0]

\* steps 1-4 of execute, one atomic step: select, pick, mark busy, record in_progress;
\* step 3: no candidate fails at once with NoAgentAvailable
Dispatch(t, call) ==
    IF Candidates(registry, call.domain) = {}
    THEN /\ registry' = registry
         /\ Finish(t, "failed", "NoAgentAvailable")
    ELSE \E a \in Preferred(registry, call.domain) :
         /\ registry' = MarkBusy(registry, a)
         /\ taskRecords' = Put(taskRecords, t,
                [status |-> "in_progress", assignedAgent |-> Some(a), error |-> ""])
         /\ executing' = Put(executing, t, [call EXCEPT !.dispatches = @ + 1])
         /\ submitResult' = submitResult

InBatch(t) == \E i \in 1..Len(batchList) : batchList[i] = t

\* submitTask(submission), lines 100-133
SubmitTask(t, dom, mr) ==
    /\ t \notin DOMAIN taskRecords
    /\ ~InBatch(t)
    /\ Dispatch(t, NewCall(dom, mr))
    /\ UNCHANGED <<batchList, batchStatuses, others>>

\* step 6: the executor succeeds
ExecSuccess(t) ==
    /\ Running(t)
    /\ registry' = Release(registry, taskRecords[t].assignedAgent)
    /\ Finish(t, "completed", "")
    /\ UNCHANGED <<batchList, batchStatuses, others>>

\* steps 7 and 8: an attempt fails or times out; both draw on the same budget
AttemptEnds(t, status, error) ==
    /\ Running(t)
    /\ registry' = Release(registry, taskRecords[t].assignedAgent)
    /\ IF executing[t].retriesLeft > 0
       THEN /\ taskRecords' = [taskRecords EXCEPT ![t].assignedAgent = Nothing]
            /\ executing' = [executing EXCEPT ![t].retriesLeft = @ - 1]
            /\ submitResult' = submitResult
       ELSE Finish(t, status, error)
    /\ UNCHANGED <<batchList, batchStatuses, others>>

ExecFailure(t) == AttemptEnds(t, "failed", "ExecutorError")

ExecTimeout(t) == AttemptEnds(t, "timeout", "Timeout")

\* step 7: after the backoff the task re-enters step 1
Retry(t) ==
    /\ InProgress(t)
    /\ taskRecords[t].assignedAgent = Nothing
    /\ Dispatch(t, executing[t])
    /\ UNCHANGED <<batchList, batchStatuses, others>>

\* cancel: NotFound for an unknown id, true for a record in progress, false for a
\* terminal one
SchedulerCancel(t) ==
    IF t \notin DOMAIN taskRecords THEN "NotFound"
    ELSE IF InProgress(t) THEN "true" ELSE "false"

\* (mutation) the facade answers true whatever the scheduler said
CancelTaskAlwaysTrue(t) == "true"

\* cancelTask lines 174-176: the facade returns what the scheduler answered
CancelTaskResult(t) == SchedulerCancel(t)

\* cancelTask(taskId), lines 171-177
CancelTask(t) ==
    /\ IF InProgress(t)
       THEN /\ registry' = Release(registry, taskRecords[t].assignedAgent)
            /\ Finish(t, "cancelled", "Cancelled")
       ELSE UNCHANGED <<chatVars, registry, taskRecords, executing, submitResult>>
    /\ UNCHANGED <<batchList, batchStatuses, others>>

\* registerAgent(agent), lines 266-282
RegisterAgent(a, dom, prio) ==
    /\ registry' = RegistryRegister(registry, a, dom, prio)
    /\ UNCHANGED <<taskRecords, executing, submitResult, batchList, batchStatuses, others>>

\* unregisterAgent(agentId), lines 287-297
UnregisterAgent(a) ==
    /\ registry' = RegistryUnregister(registry, a)
    /\ UNCHANGED <<taskRecords, executing, submitResult, batchList, batchStatuses, others>>

\* what unregisterAgent returns: true unless the registry throws, and unregister
\* of the registry never throws (lines 290-296)
UnregisterAgentResult(a) == TRUE

\* (mutation) updateAgentStatus reports success whatever the registry did
UpdateAgentStatusReportsSuccess(a, s) == TRUE

\* what updateAgentStatus returns: false when the registry throws NotFound
UpdateAgentStatusResult(a, s) == RegistryHas(registry, a)

\* the registry an updateAgentStatus call leaves: the throw of NotFound comes
\* before any change
RegistryAfterUpdateAgentStatus(a, s) ==
    IF RegistryHas(registry, a)
    THEN RegistryUpdateStatus(registry, a, s)
    ELSE registry

\* updateAgentStatus(agentId, status), lines 312-320
UpdateAgentStatus(a, s) ==
    /\ registry' = RegistryAfterUpdateAgentStatus(a, s)
    /\ UNCHANGED <<taskRecords, executing, submitResult, batchList, batchStatuses, others>>

\* ------------------------------------------------------------- batch
Distinct(list) == \A i, j \in 1..Len(list) : i # j => list[i] # list[j]

\* the task ids of a submissions array; the domain and maxRetries of a submission
\* are drawn when the loop reaches it, nothing reads them earlier
BatchLists ==
    {list \in UNION {[1..n -> TaskIds] : n \in 1..MaxBatch} : Distinct(list)}

\* the submission the for loop of batchSubmitTasks is at
BatchAt == Len(batchStatuses) + 1

BatchDone == Len(batchStatuses) = Len(batchList)

\* (mutation) the call is not awaited
BatchNotAwaited(t) == TRUE

\* line 161, await this.submitTask(submission): the call has returned
BatchAwaited(t) == Returned(t)

\* the value the awaited call gave
AwaitedStatus(t) ==
    IF Returned(t) THEN submitResult[t]
    ELSE [taskId |-> t, status |-> "pending", error |-> ""]

\* batchSubmitTasks(submissions), lines 157-166: the loop starts with the first one
BatchSubmitTasks(list, dom, mr) ==
    /\ batchList = << >>
    /\ \A i \in 1..Len(list) : list[i] \notin DOMAIN taskRecords
    /\ batchList' = list
    /\ batchStatuses' = << >>
    /\ Dispatch(list[1], NewCall(dom, mr))
    /\ UNCHANGED others

\* lines 160-163: push the awaited status, then call submitTask for the next
BatchNext(dom, mr) ==
    /\ batchList # << >>
    /\ ~BatchDone
    /\ BatchAwaited(batchList[BatchAt])
    /\ batchStatuses' = Append(batchStatuses, AwaitedStatus(batchList[BatchAt]))
    /\ batchList' = batchList
    /\ IF BatchAt < Len(batchList)
       THEN Dispatch(batchList[BatchAt + 1], NewCall(dom, mr))
       ELSE UNCHANGED <<chatVars, registry, taskRecords, executing, submitResult>>
    /\ UNCHANGED others

\* ------------------------------------------------------------- swarm health
NearCapacityAdvice == "Agent swarm near capacity - consider adding more agents"
LowUtilizationAdvice == "Low agent utilization - consider reducing agent pool"
UnhealthyAdvice == "Agent swarm unhealthy - investigate agent failures"

CountStatus(reg, statuses) ==
    Cardinality({a \in DOMAIN reg : reg[a].status \in statuses})

\* line 235: the quotient currentLoad / totalCapacity * 100, kept as a fraction.
\* For every registry of up to 40 agents the double the code computes compares
\* with 80 and with 90, and rounds to two decimals, as the exact quotient does.
LoadPercentage(currentLoad, totalCapacity) ==
    IF totalCapacity > 0
    THEN [num |-> currentLoad * 100, den |-> totalCapacity]
    ELSE [num |-> 0, den |-> 1]

\* (mutation) <= 80
HealthyUpTo80(lp, activeAgents) == lp.num <= 80 * lp.den /\ activeAgents > 0

\* line 237: loadPercentage < 80 && activeAgents > 0
Healthy(lp, activeAgents) == lp.num < 80 * lp.den /\ activeAgents > 0

\* (mutation) >= 90
NearCapacityFrom90(lp) == lp.num >= 90 * lp.den

\* line 241: loadPercentage > 90
NearCapacity(lp) == lp.num > 90 * lp.den

\* line 245: activeAgents < totalCapacity * 0.5
LowUtilization(activeAgents, totalCapacity) == 2 * activeAgents < totalCapacity

\* line 258: Math.round(loadPercentage * 100) / 100, in hundredths of a percent
RoundedLoad(lp) == (2 * 100 * lp.num + lp.den) \div (2 * lp.den)

\* getSwarmHealth(), lines 231-260
SwarmHealth(reg) ==
    LET activeAgents == CountStatus(reg, {"idle", "busy"})
        totalCapacity == Cardinality(DOMAIN reg)
        currentLoad == CountStatus(reg, {"busy"})
        loadPercentage == LoadPercentage(currentLoad, totalCapacity)
        healthy == Healthy(loadPercentage, activeAgents)
    IN  [healthy |-> healthy,
         activeAgents |-> activeAgents,
         totalCapacity |-> totalCapacity,
         currentLoad |-> currentLoad,
         loadPercentage |-> RoundedLoad(loadPercentage),
         recommendedActions |->
            (IF NearCapacity(loadPercentage) THEN <<NearCapacityAdvice>> ELSE << >>)
            \o (IF LowUtilization(activeAgents, totalCapacity)
                THEN <<LowUtilizationAdvice>> ELSE << >>)
            \o (IF ~healthy THEN <<UnhealthyAdvice>> ELSE << >>)]

GetSwarmHealth ==
    /\ health' = Some(SwarmHealth(registry))
    /\ UNCHANGED <<chatVars, registry, taskRecords, executing, submitResult, batchList,
                   batchStatuses, statsVars, bootVars, omegaVars>>

\* ------------------------------------------------------------- statistics
\* the records of orchestrator.getTaskResults(): a TaskRecord's status and the time
\* its execution took; the flags the facade reads follow the status
TaskRecordStatuses == {"pending", "in_progress"} \cup TerminalStatuses
ResultRecords == [status : TaskRecordStatuses, duration : 0..MaxDuration]
ResultArrays == UNION {[1..n -> ResultRecords] : n \in 0..MaxResults}

ResultSuccess(r) == r.status = "completed"
ResultCompleted(r) == r.status \in TerminalStatuses
ResultFailed(r) == r.status \in TerminalStatuses \ {"completed"}
ResultInProgress(r) == r.status = "in_progress"

\* results.filter(result => result.success).length
CountSuccessful(results) == Cardinality({i \in DOMAIN results : ResultSuccess(results[i])})

\* line 206: taskResults.reduce((sum, result) => sum + (result.duration || 0), 0)
RECURSIVE SumDurations(_)
SumDurations(results) ==
    IF results = << >> THEN 0
    ELSE results[1].duration + SumDurations(Tail(results))

\* lines 203-207: the count of successful results and the average duration, a
\* fraction [num, den]
AverageTaskDuration(results) ==
    LET completedTasks == CountSuccessful(results)
    IN  IF completedTasks > 0
        THEN [num |-> SumDurations(results), den |-> completedTasks]
        ELSE [num |-> 0, den |-> 1]

\* getAgentStatistics(), lines 191-217
AgentStatistics(reg, results) ==
    [totalAgents |-> Cardinality(DOMAIN reg),
     availableAgents |-> CountStatus(reg, {"idle"}),
     busyAgents |-> CountStatus(reg, {"busy"}),
     offlineAgents |-> CountStatus(reg, {"offline"}),
     byDomain |-> [d \in {reg[a].domain : a \in DOMAIN reg} |->
                        Cardinality({a \in DOMAIN reg : reg[a].domain = d})],
     tasksCompleted |-> CountSuccessful(results),
     averageTaskDuration |-> AverageTaskDuration(results)]

GetAgentStatistics ==
    /\ agentStatistics' = Some(AgentStatistics(registry, taskResults))
    /\ UNCHANGED <<chatVars, registry, taskRecords, executing, submitResult, batchList,
                   batchStatuses, health, taskResults, queueStatus, bootVars,
                   omegaVars>>

\* lines 335-338 of getTaskQueueStatus: the four filters
QueuePending(r) == ~ResultCompleted(r) /\ ~ResultFailed(r)
QueueInProgress(r) == ResultInProgress(r)
QueueCompleted(r) == ResultCompleted(r) /\ ResultSuccess(r)
QueueFailed(r) == ResultCompleted(r) /\ ~ResultSuccess(r)

\* getTaskQueueStatus(), lines 333-360; the two wait times, which are computed from
\* the records' timestamps alone, are not carried
TaskQueueStatus(results) ==
    [pendingTasks |-> Cardinality({i \in DOMAIN results : QueuePending(results[i])}),
     inProgressTasks |-> Cardinality({i \in DOMAIN results : QueueInProgress(results[i])}),
     completedTasks |-> Cardinality({i \in DOMAIN results : QueueCompleted(results[i])}),
     failedTasks |-> Cardinality({i \in DOMAIN results : QueueFailed(results[i])})]

GetTaskQueueStatus ==
    /\ queueStatus' = Some(TaskQueueStatus(taskResults))
    /\ UNCHANGED <<chatVars, registry, taskRecords, executing, submitResult, batchList,
                   batchStatuses, health, taskResults, agentStatistics,
                   bootVars, omegaVars>>

\* ------------------------------------------------------------- coordination
\* line 170: heartbeatAge < 300000; line 253: updateAge < 60000
ConflictWindow == 300000
ReadyWindow == 60000

\* the instants at which Date.now() is read
Instants == {0, 59999, 60000, 250000, 300000, 301000}

Self == "omeaga-system"
Peer == "other-enhancer"

\* lines 129-152 (and 420-443, the record readCoordinationFile falls back to)
FreshCoordination(t) ==
    [version |-> "1.0",
     lastUpdate |-> t,
     systemStatus |-> "initializing",
     enhancers |-> [e \in {Self, Peer} |->
        [activeFiles |-> << >>,
         lastHeartbeat |-> t,
         status |-> IF e = Self THEN "active" ELSE "idle"]],
     mode |-> "dual-llm",
     evolution |-> [cycle |-> 0, status |-> "idle", startTime |-> Nothing,
                    lastUpdate |-> Nothing]]

\* readCoordinationFile(), lines 410-445: the fetched record, or the default one
ReadCoordinationFile(file, t) ==
    IF file = Nothing THEN FreshCoordination(t) ELSE file[1]

\* writeCoordinationFile(data), lines 450-459: the record is printed, nothing is
\* stored; what a later fetch yields is what it yielded before
WriteCoordinationFile(file, data) == file

\* (mutation) the identifier coordinationData names the record at hand everywhere
CoordinationDataDeclared(method, coordination) == Some(coordination)

\* the identifier coordinationData is declared in initializeCoordination only
\* (line 129); lines 240, 370, 383, 404 and 505 name it where nothing declares it,
\* and evaluating the argument throws a ReferenceError before the call
CoordinationDataIn(method, coordination) ==
    IF method = "initializeCoordination" THEN Some(coordination) ELSE Nothing

\* this.writeCoordinationFile(coordinationData) in a method: the stored record after it
WriteCallIn(method, file, coordination) ==
    IF CoordinationDataIn(method, coordination) = Nothing
    THEN file
    ELSE WriteCoordinationFile(file, CoordinationDataIn(method, coordination)[1])

\* whether that statement throws
WriteCallThrows(method, coordination) == CoordinationDataIn(method, coordination) = Nothing

\* what that statement prints
PrintedBy(method, before, coordination) ==
    IF CoordinationDataIn(method, coordination) = Nothing
    THEN before
    ELSE CoordinationDataIn(method, coordination)

\* ------------------------------------------------------------- files
\* a path is the sequence of its parts; the marker suffix is one part
ReadySuffix == ".ready"
EnhancerSuffix == ".enhancer.ts"
BackupSuffix == ".backup"

\* file.endsWith('.ready'), line 258
EndsWithReady(path) == path # << >> /\ path[Len(path)] = ReadySuffix

\* String.replace with a string pattern: the first occurrence only
RECURSIVE ReplaceFirst(_, _, _)
ReplaceFirst(path, part, by) ==
    IF path = << >> THEN << >>
    ELSE IF Head(path) = part THEN by \o Tail(path)
    ELSE <<Head(path)>> \o ReplaceFirst(Tail(path), part, by)

\* line 274: filePath.replace('.ready', '.enhancer.ts')
CompanionPath(filePath) == ReplaceFirst(filePath, ReadySuffix, <<EnhancerSuffix>>)
\* line 283: filePath.replace('.ready', '')
OriginalPath(filePath) == ReplaceFirst(filePath, ReadySuffix, << >>)
\* line 341: `${originalPath}.backup`
BackupPath(originalPath) == originalPath \o <<BackupSuffix>>

\* readFile(filePath), lines 464-473: data.content || '', and '' on any error
ReadFile(fs, path) == IF path \in DOMAIN fs THEN fs[path] ELSE << >>

\* readFile(filePath) whose fetch may reject: the catch of lines 469-472 logs and
\* returns ''
ReadFileOrEmpty(fs, path, ok) == IF ok THEN ReadFile(fs, path) ELSE << >>

\* writeFile(filePath, content), lines 478-493: the POST stores the content, or it
\* fails and the error is logged and swallowed (a rejected fetch) or not even seen
\* (an error status)
WriteFile(fs, path, content, ok) == IF ok THEN Put(fs, path, content) ELSE fs

\* a content is the sequence of its tokens; content.includes(s)
TokenIncludes(token, s) ==
    \/ token = s
    \/ token = "export default" /\ s = "export "
Includes(content, s) == \E i \in DOMAIN content : TokenIncludes(content[i], s)

\* (mutation) validation stops at the first rule that is violated
FirstValidationError(content) ==
    IF ~Includes(content, "export ") /\ ~Includes(content, "import ")
    THEN <<"Invalid TypeScript code">>
    ELSE IF Includes(content, "  ") /\ Includes(content, "export default")
    THEN <<"Indentation errors detected">>
    ELSE IF Includes(content, "undefined")
    THEN <<"Undefined references detected">> ELSE << >>

\* validateEnhancements(content), lines 301-323
ValidationErrors(content) ==
    (IF ~Includes(content, "export ") /\ ~Includes(content, "import ")
     THEN <<"Invalid TypeScript code">> ELSE << >>)
    \o (IF Includes(content, "  ") /\ Includes(content, "export default")
        THEN <<"Indentation errors detected">> ELSE << >>)
    \o (IF Includes(content, "undefined")
        THEN <<"Undefined references detected">> ELSE << >>)

\* (mutation) every content is valid
ValidateAnything(content) == [valid |-> TRUE, errors |-> << >>]

ValidateEnhancements(content) ==
    [valid |-> ValidationErrors(content) = << >>, errors |-> ValidationErrors(content)]

\* ------------------------------------------------------------- boot
\* Date.now() moves on
TimePasses(t) ==
    /\ t > now
    /\ now' = t
    /\ UNCHANGED <<chatVars, omegaVars, facadeVars, coordinationFile, printed, files, boot, conflictReport,
                   changes, poll>>

\* boot(), lines 80-89: already booted is a warning and nothing else
Boot ==
    /\ boot.pc \in {"idle", "rejected"}
    /\ ~boot.isBooted
    /\ boot' = [boot EXCEPT !.pc = "initializeCoordination", !.rejection = Nothing]
    /\ UNCHANGED <<chatVars, omegaVars, facadeVars, coordinationFile, printed, files, now, conflictReport,
                   changes, poll>>

\* phase 1, initializeCoordination(), lines 126-156
InitializeCoordination ==
    /\ boot.pc = "initializeCoordination"
    /\ LET coordinationData == FreshCoordination(now)
       IN  /\ coordinationFile' =
                WriteCallIn("initializeCoordination", coordinationFile, coordinationData)
           /\ printed' = PrintedBy("initializeCoordination", printed, coordinationData)
    /\ boot' = [boot EXCEPT !.pc = "checkForConflicts"]
    /\ UNCHANGED <<chatVars, omegaVars, facadeVars, files, now, conflictReport, changes, poll>>

\* (mutation) <= 300000
ConflictFreshUpTo(heartbeatAge) == heartbeatAge <= ConflictWindow

\* line 170: heartbeatAge < 300000
ConflictFresh(heartbeatAge) == heartbeatAge < ConflictWindow

\* lines 170-184: what checkForConflicts logs last
ConflictLog(otherEnhancer, heartbeatAge) ==
    IF otherEnhancer.status = "active" /\ ConflictFresh(heartbeatAge)
    THEN IF Len(otherEnhancer.activeFiles) > 0
         THEN "Conflict detected"
         ELSE "Other enhancer is active"
    ELSE "No conflicts detected"

\* phase 2, checkForConflicts(), lines 161-185: it logs, and boot goes on
CheckForConflicts ==
    /\ boot.pc = "checkForConflicts"
    /\ LET coordination == ReadCoordinationFile(coordinationFile, now)
           otherEnhancer == coordination.enhancers[Peer]
           heartbeatAge == now - otherEnhancer.lastHeartbeat
       IN  conflictReport' = Some([heartbeatAge |-> heartbeatAge,
                                   logged |-> ConflictLog(otherEnhancer, heartbeatAge)])
    /\ boot' = [boot EXCEPT !.pc = "initializeOmegaSystem"]
    /\ UNCHANGED <<chatVars, omegaVars, facadeVars, coordinationFile, printed, files, now, changes, poll>>

\* updateCoordinationStatus(status), lines 377-384: the record it means to write
WithSystemStatus(file, t, status) ==
    [ReadCoordinationFile(file, t) EXCEPT !.systemStatus = status, !.lastUpdate = t]

\* phase 3, initializeOmegaSystem(), lines 190-205, with phases 4 to 6 (lines 101-107,
\* no await between them) when it returns; ok: omegaOrchestrator.initialize() resolved
InitializeOmegaSystem(ok) ==
    /\ boot.pc = "initializeOmegaSystem"
    /\ LET coordination == WithSystemStatus(coordinationFile, now, "active")
           threw == ~ok \/ WriteCallThrows("updateCoordinationStatus", coordination)
       IN  /\ coordinationFile' =
                IF ok
                THEN WriteCallIn("updateCoordinationStatus", coordinationFile, coordination)
                ELSE coordinationFile
           /\ printed' =
                IF ok
                THEN PrintedBy("updateCoordinationStatus", printed, coordination)
                ELSE printed
           /\ changes' = IF ok THEN [changes EXCEPT !.systemStatus = Some("active")]
                         ELSE changes
           /\ boot' =
                IF threw
                THEN [boot EXCEPT !.pc = "handleBootError"]
                ELSE [pc |-> "booted", isBooted |-> TRUE,
                      heartbeatTimers |-> boot.heartbeatTimers + 1,
                      pollTimers |-> boot.pollTimers + 1,
                      rejection |-> Nothing]
    /\ UNCHANGED <<chatVars, omegaVars, facadeVars, files, now, conflictReport, poll>>

\* what boot() rejects with: the error of line 119, unless handleBootError (awaited
\* at line 118, inside the catch) throws first at its own write call
BootRejection(file, t) ==
    IF WriteCallThrows("handleBootError", WithSystemStatus(file, t, "error"))
    THEN "ReferenceError"
    ELSE "System boot failed"

\* handleBootError(error), lines 498-509, and the rejection of boot() (line 119, or
\* the error handleBootError itself throws)
HandleBootError ==
    /\ boot.pc = "handleBootError"
    /\ LET coordination == WithSystemStatus(coordinationFile, now, "error")
       IN  /\ coordinationFile' = WriteCallIn("handleBootError", coordinationFile, coordination)
           /\ printed' = PrintedBy("handleBootError", printed, coordination)
           /\ changes' = [changes EXCEPT !.systemStatus = Some("error")]
    /\ boot' = [boot EXCEPT !.pc = "rejected",
                            !.rejection = Some(BootRejection(coordinationFile, now))]
    /\ UNCHANGED <<chatVars, omegaVars, facadeVars, files, now, conflictReport, poll>>

\* shutdown(), lines 625-638: no timer is cleared (lines 628-630 are comments);
\* isBooted is reset, then updateCoordinationStatus('idle') is awaited
BootAfterShutdown(b) ==
    [b EXCEPT !.isBooted = FALSE, !.pc = "idle"]

\* whether shutdown() rejects: the write call of updateCoordinationStatus throws
ShutdownThrows ==
    WriteCallThrows("updateCoordinationStatus",
                    WithSystemStatus(coordinationFile, now, "idle"))

\* shutdown() called while no boot() is in flight
Shutdown ==
    /\ boot.pc \in {"idle", "booted", "rejected"}
    /\ LET coordination == WithSystemStatus(coordinationFile, now, "idle")
       IN  /\ coordinationFile' =
                WriteCallIn("updateCoordinationStatus", coordinationFile, coordination)
           /\ printed' = PrintedBy("updateCoordinationStatus", printed, coordination)
    /\ changes' = [changes EXCEPT !.systemStatus = Some("idle")]
    /\ boot' = BootAfterShutdown(boot)
    /\ UNCHANGED <<chatVars, omegaVars, facadeVars, files, now, conflictReport, poll>>

\* restart(), lines 643-648: await this.shutdown(), and boot() only if that resolved
Restart ==
    /\ boot.pc \in {"idle", "booted", "rejected"}
    /\ changes.restarts < MaxRestarts
    /\ LET coordination == WithSystemStatus(coordinationFile, now, "idle")
       IN  /\ coordinationFile' =
                WriteCallIn("updateCoordinationStatus", coordinationFile, coordination)
           /\ printed' = PrintedBy("updateCoordinationStatus", printed, coordination)
    /\ changes' = [changes EXCEPT !.systemStatus = Some("idle"),
                                  !.restarts = @ + 1]
    /\ boot' = IF ShutdownThrows
               THEN BootAfterShutdown(boot)
               ELSE [BootAfterShutdown(boot) EXCEPT !.pc = "initializeCoordination",
                                                    !.rejection = Nothing]
    /\ UNCHANGED <<chatVars, omegaVars, facadeVars, files, now, conflictReport, poll>>

\* ------------------------------------------------------------- heartbeat
\* updateHeartbeat(), lines 234-241: the record it means to write
WithHeartbeat(file, t) ==
    [ReadCoordinationFile(file, t) EXCEPT
        !.enhancers[Self].lastHeartbeat = t, !.lastUpdate = t]

\* (mutation) the heartbeat stores the record readCoordinationFile falls back to
StoredByFallbackHeartbeat(file, t) == Some(WithHeartbeat(Nothing, t))

\* the stored record after updateHeartbeat()
StoredByHeartbeat(file, t) == WriteCallIn("updateHeartbeat", file, WithHeartbeat(file, t))

\* the callback of the heartbeat timer, lines 212-214; the await of the read comes
\* before the only statement that could store anything
UpdateHeartbeat ==
    /\ boot.heartbeatTimers > 0
    /\ coordinationFile' = StoredByHeartbeat(coordinationFile, now)
    /\ printed' = PrintedBy("updateHeartbeat", printed, WithHeartbeat(coordinationFile, now))
    /\ changes' = [changes EXCEPT !.lastHeartbeat = Some(now)]
    /\ UNCHANGED <<chatVars, omegaVars, facadeVars, files, now, boot, conflictReport, poll>>

\* updateEvolutionStatus(status, cycle), lines 389-405: the record it means to write
WithEvolution(file, t, status, cycle) ==
    LET coordination == ReadCoordinationFile(file, t)
        \* line 392, !coordination.evolution.startTime: undefined or 0
        startTime == IF /\ status = "running"
                        /\ coordination.evolution.startTime \in {Nothing, Some(0)}
                     THEN Some(t) ELSE coordination.evolution.startTime
    IN  [coordination EXCEPT
            !.evolution = [cycle |-> IF cycle # Nothing THEN cycle[1] ELSE @.cycle,
                           status |-> status,
                           startTime |-> startTime,
                           lastUpdate |-> Some(t)],
            !.lastUpdate = t]

UpdateEvolutionStatus(status, cycle) ==
    /\ LET coordination == WithEvolution(coordinationFile, now, status, cycle)
       IN  /\ coordinationFile' =
                WriteCallIn("updateEvolutionStatus", coordinationFile, coordination)
           /\ printed' = PrintedBy("updateEvolutionStatus", printed, coordination)
    /\ changes' = [changes EXCEPT !.evolution = Some(status)]
    /\ UNCHANGED <<chatVars, omegaVars, facadeVars, files, now, boot, conflictReport, poll>>

\* ------------------------------------------------------------- peer poll
PollIdle ==
    [pc |-> "idle", queue |-> << >>, enhanced |-> << >>, current |-> << >>,
     targetWritten |-> FALSE, backupWritten |-> FALSE, currentReadFailed |-> FALSE,
     due |-> FALSE]

\* (mutation) <= 60000
ReadyFreshUpTo(updateAge) == updateAge <= ReadyWindow

\* line 253: updateAge < 60000
ReadyFresh(updateAge) == updateAge < ReadyWindow

\* lines 253-262: the files the loop hands to processReadyFile, in order
ReadyFiles(otherEnhancer, updateAge) ==
    IF otherEnhancer.status = "active" /\ ReadyFresh(updateAge)
    THEN SelectSeq(otherEnhancer.activeFiles, EndsWithReady)
    ELSE << >>

\* the callback of the peer-poll timer, checkForEnhancerUpdates(), lines 246-264: the
\* record is read once and the loop runs over that copy
CheckForEnhancerUpdates ==
    /\ boot.pollTimers > 0
    /\ poll.pc = "idle"
    /\ LET coordination == ReadCoordinationFile(coordinationFile, now)
           otherEnhancer == coordination.enhancers[Peer]
           updateAge == now - otherEnhancer.lastHeartbeat
           queue == ReadyFiles(otherEnhancer, updateAge)
       IN  poll' = IF queue = << >> THEN PollIdle
                   ELSE [PollIdle EXCEPT !.pc = "processReadyFile", !.queue = queue]
    /\ UNCHANGED <<chatVars, omegaVars, facadeVars, coordinationFile, printed, files, now, boot,
                   conflictReport, changes>>

\* the loop goes to its next file, or the callback returns
NextFile(p) ==
    IF Tail(p.queue) = << >>
    THEN [p EXCEPT !.pc = "idle", !.queue = << >>]
    ELSE [p EXCEPT !.pc = "processReadyFile", !.queue = Tail(p.queue)]

\* processReadyFile(filePath), lines 269-284, up to the first write: the companion is
\* read and validated; if it is valid applyEnhancements reads the current content
\* (line 332); nothing is written in between
ProcessReadyFileReading(companionRead, currentRead) ==
    /\ poll.pc = "processReadyFile"
    /\ LET filePath == Head(poll.queue)
           enhancedContent ==
                ReadFileOrEmpty(files, CompanionPath(filePath), companionRead)
           validation == ValidateEnhancements(enhancedContent)
       IN  /\ poll' =
            IF validation.valid
            THEN [poll EXCEPT !.pc = "writeTarget",
                              !.enhanced = enhancedContent,
                              !.current = ReadFileOrEmpty(files, OriginalPath(filePath),
                                                          currentRead),
                              !.targetWritten = FALSE,
                              !.backupWritten = FALSE,
                              !.currentReadFailed = ~currentRead]
            ELSE NextFile([poll EXCEPT !.targetWritten = FALSE, !.backupWritten = FALSE,
                                       !.currentReadFailed = FALSE])
           /\ changes' = IF validation.valid
                         THEN [changes EXCEPT !.applied = @ \cup {filePath}]
                         ELSE changes
    /\ UNCHANGED <<chatVars, omegaVars, facadeVars, coordinationFile, printed, files, now, boot,
                   conflictReport>>

\* processReadyFile with either read succeeding or failing
ProcessReadyFile ==
    \E companionRead, currentRead \in BOOLEAN :
        ProcessReadyFileReading(companionRead, currentRead)

\* applyEnhancements, line 338: await this.writeFile(originalPath, enhancedContent)
WriteTarget(ok) ==
    /\ poll.pc = "writeTarget"
    /\ files' = WriteFile(files, OriginalPath(Head(poll.queue)), poll.enhanced, ok)
    /\ poll' = [poll EXCEPT !.pc = "writeBackup", !.targetWritten = ok]
    /\ UNCHANGED <<chatVars, omegaVars, facadeVars, coordinationFile, printed, now, boot, conflictReport,
                   changes>>

\* applyEnhancements, line 341: await this.writeFile(`${originalPath}.backup`,
\* currentContent)
WriteBackup(ok) ==
    /\ poll.pc = "writeBackup"
    /\ files' = WriteFile(files, BackupPath(OriginalPath(Head(poll.queue))),
                          poll.current, ok)
    /\ poll' = [poll EXCEPT !.pc = "removeFileFromCoordination", !.backupWritten = ok]
    /\ UNCHANGED <<chatVars, omegaVars, facadeVars, coordinationFile, printed, now, boot, conflictReport,
                   changes>>

\* activeFiles.indexOf(filePath), 0 for -1
IndexOf(list, x) ==
    IF \E i \in DOMAIN list : list[i] = x
    THEN CHOOSE i \in DOMAIN list : list[i] = x /\ \A j \in 1..(i - 1) : list[j] # x
    ELSE 0

\* activeFiles.splice(index, 1)
Splice(list, index) == [i \in 1..(Len(list) - 1) |-> IF i < index THEN list[i] ELSE list[i + 1]]

\* removeFileFromCoordination(filePath), lines 362-372: the record it means to write
WithoutFile(file, t, filePath) ==
    LET coordination == ReadCoordinationFile(file, t)
        index == IndexOf(coordination.enhancers[Peer].activeFiles, filePath)
    IN  [coordination EXCEPT !.enhancers[Peer].activeFiles = Splice(@, index),
                             !.lastUpdate = t]

\* line 287, with the catch of line 293 around it, and the loop's next turn
RemoveFileFromCoordination ==
    /\ poll.pc = "removeFileFromCoordination"
    /\ LET filePath == Head(poll.queue)
           coordination == ReadCoordinationFile(coordinationFile, now)
           found == IndexOf(coordination.enhancers[Peer].activeFiles, filePath) # 0
           without == WithoutFile(coordinationFile, now, filePath)
       IN  /\ coordinationFile' =
                IF found
                THEN WriteCallIn("removeFileFromCoordination", coordinationFile, without)
                ELSE coordinationFile
           /\ printed' =
                IF found
                THEN PrintedBy("removeFileFromCoordination", printed, without)
                ELSE printed
           /\ changes' = IF found
                         THEN [changes EXCEPT !.removed = @ \cup {filePath}]
                         ELSE changes
    /\ poll' = NextFile(poll)
    /\ UNCHANGED <<chatVars, omegaVars, facadeVars, files, now, boot, conflictReport>>

\* ------------------------------------------------------------- peer and clock
\* startHeartbeat: setInterval(..., 60000) (line 214), the peer's interval too
HeartbeatInterval == 60000
\* startEnhancerMonitoring: setInterval(..., 120000) (line 226)
PollInterval == 120000

\* the peer process refreshes its heartbeat in the record behind COORDINATION_FILE
\* and keeps its status and its activeFiles
PeerRefreshes ==
    /\ coordinationFile # Nothing
    /\ coordinationFile[1].enhancers[Peer].lastHeartbeat < now
    /\ coordinationFile' =
            Some([coordinationFile[1] EXCEPT !.enhancers[Peer].lastHeartbeat = now])
    /\ UNCHANGED <<chatVars, omegaVars, facadeVars, printed, files, now, boot, conflictReport,
                   changes, poll>>

\* Date.now() moves on by one heartbeat interval, once the peer has refreshed at this
\* instant and the peer-poll tick due at this instant has run; every second interval
\* the peer-poll timer comes due.  The timers run for ever: after MaxPollTicks poll
\* periods the epoch is moved on by one poll period, that is, now and the peer's
\* heartbeat, the one timestamp the peer-poll callback reads (line 252), are counted
\* from one period later; the callback only reads their difference
ClockAdvances ==
    /\ coordinationFile # Nothing
    /\ coordinationFile[1].enhancers[Peer].lastHeartbeat = now
    /\ poll.pc = "idle"
    /\ ~poll.due
    /\ poll' = [poll EXCEPT !.due = ((now + HeartbeatInterval) % PollInterval = 0)]
    /\ IF now < MaxPollTicks * PollInterval
       THEN /\ now' = now + HeartbeatInterval
            /\ coordinationFile' = coordinationFile
       ELSE /\ now' = now + HeartbeatInterval - PollInterval
            /\ coordinationFile' =
                    Some([coordinationFile[1] EXCEPT
                            !.enhancers[Peer].lastHeartbeat = @ - PollInterval])
    /\ UNCHANGED <<chatVars, omegaVars, facadeVars, printed, files, boot,
                   conflictReport, changes>>

\* the peer-poll timer fires when it is due (lines 224-226)
PollTick ==
    /\ poll.due
    /\ CheckForEnhancerUpdates

\* ------------------------------------------------------------- orchestrator
\* src/src/lib/omega-orchestrator.ts.  Metrics are fractions in the source; here
\* they are counted in thousandths (0.8 is 800), key counts are plain numbers.

\* identifyOptimizationOpportunities: cqm > 0.8 (line 411)
CqmAbove == 800
\* successRate < 0.85 (line 425)
SuccessRateBelow == 850
\* evolutionRate < 0.15 (line 434)
EvolutionRateBelow == 150
\* keys > 15 (line 443)
KeysAbove == 15
\* analyzeSystemPerformance: memory.successRate 0.843 (line 372)
SampleSuccessRate == 843
\* analyzeSystemPerformance: security.keys 10 (line 377)
SampleKeys == 10
\* evaluateEvolution: improvementPercentage 15.3 (line 598)
ImprovementPercentage == 15300

\* the private startEvolutionCycle (lines 295-304): arms the 60000 ms interval
StartEvolutionCyclePrivate(o) == [o EXCEPT !.evolutionTimers = @ + 1]

\* the public startEvolutionCycle (lines 957-967): returns a progress object and
\* arms nothing
StartEvolutionCyclePublic(o) == o

\* this.startEvolutionCycle() (line 150): the class body declares the method twice,
\* and the later member of a class body replaces the earlier one of the same name
StartEvolutionCycle(o) == StartEvolutionCyclePublic(o)

\* startDualLLMCoordination (lines 310-319): arms the 120000 ms interval
StartDualLLMCoordination(o) == [o EXCEPT !.coordinationTimers = @ + 1]

\* (mutation) the record is stored twice
StoreExperienceTwice(db, record) == Append(Append(db, record), record)

\* experienceDatabase.storeExperience: the database keeps the record it is given
StoreExperience(db, record) == Append(db, record)

\* the record of recordInitializationExperience (lines 706-728)
InitializationRecord == [id |-> <<"system-initialization">>, domain |-> "system"]

\* initialize(), lines 121-126: the check of isInitialized
Initialize(c) ==
    /\ initializeCalls[c] = "idle"
    /\ initializeCalls' = [initializeCalls EXCEPT
            ![c] = IF omega.isInitialized THEN "returned" ELSE "initializing"]
    /\ UNCHANGED <<chatVars, omega, cycles, experiences, systemAnalysis,
                   optimizationOpportunities, facadeVars, bootVars>>

\* initialize(), lines 131-162: the six awaited phases (ok: none of them rejects),
\* then the two start calls and isInitialized, up to the await of line 162
InitializeLayers(c, ok) ==
    /\ initializeCalls[c] = "initializing"
    /\ IF ok
       THEN /\ omega' = [StartDualLLMCoordination(StartEvolutionCycle(omega))
                            EXCEPT !.isInitialized = TRUE]
            /\ initializeCalls' =
                    [initializeCalls EXCEPT ![c] = "recordInitializationExperience"]
       ELSE /\ omega' = omega
            /\ initializeCalls' = [initializeCalls EXCEPT ![c] = "rejected"]
    /\ UNCHANGED <<chatVars, cycles, experiences, systemAnalysis, optimizationOpportunities,
                   facadeVars, bootVars>>

\* initialize(), lines 162-167: storeExperience settles; a rejection is rethrown
RecordInitializationExperience(c, ok) ==
    /\ initializeCalls[c] = "recordInitializationExperience"
    /\ experiences' = IF ok THEN StoreExperience(experiences, InitializationRecord)
                      ELSE experiences
    /\ initializeCalls' =
            [initializeCalls EXCEPT ![c] = IF ok THEN "resolved" ELSE "rejected"]
    /\ UNCHANGED <<chatVars, omega, cycles, systemAnalysis, optimizationOpportunities,
                   facadeVars, bootVars>>

\* analyzeSystemPerformance (lines 356-401): cqm is what the state tracker holds,
\* evolutionRate the orchestrator's field, the rest the samples of the source
AnalyzeSystemPerformance(o, cqm) ==
    [consciousness |-> [cqm |-> cqm],
     memory |-> [successRate |-> SampleSuccessRate],
     security |-> [keys |-> SampleKeys],
     learning |-> [cycles |-> o.learningCycles, evolutionRate |-> o.evolutionRate]]

Opportunity(layer, type, priority) ==
    [layer |-> layer, type |-> type, priority |-> priority]

\* (mutation) the four conditions also hold at their boundary values
IdentifyAtBoundariesToo(analysis) ==
    (IF analysis.consciousness.cqm >= CqmAbove
     THEN <<Opportunity("consciousness", "optimize_emergence_detection", "high")>>
     ELSE << >>)
    \o (IF analysis.memory.successRate <= SuccessRateBelow
        THEN <<Opportunity("memory", "improve_experience_quality", "high")>>
        ELSE << >>)
    \o (IF analysis.learning.evolutionRate <= EvolutionRateBelow
        THEN <<Opportunity("learning", "accelerate_evolution", "high")>>
        ELSE << >>)
    \o (IF analysis.security.keys >= KeysAbove
        THEN <<Opportunity("security", "consolidate_keys", "medium")>>
        ELSE << >>)

\* identifyOptimizationOpportunities (lines 406-459): four ifs, each pushing one
\* opportunity, in this order
IdentifyOptimizationOpportunities(analysis) ==
    (IF analysis.consciousness.cqm > CqmAbove
     THEN <<Opportunity("consciousness", "optimize_emergence_detection", "high")>>
     ELSE << >>)
    \o (IF analysis.memory.successRate < SuccessRateBelow
        THEN <<Opportunity("memory", "improve_experience_quality", "high")>>
        ELSE << >>)
    \o (IF analysis.learning.evolutionRate < EvolutionRateBelow
        THEN <<Opportunity("learning", "accelerate_evolution", "high")>>
        ELSE << >>)
    \o (IF analysis.security.keys > KeysAbove
        THEN <<Opportunity("security", "consolidate_keys", "medium")>>
        ELSE << >>)

\* generateEvolutionStrategies (lines 464-481): one strategy per opportunity
GenerateEvolutionStrategies(opportunities) ==
    [i \in DOMAIN opportunities |->
        [layer |-> opportunities[i].layer, type |-> opportunities[i].type]]

NoResults == [success |-> 0, failed |-> 0, improvements |-> << >>, attempted |-> << >>]

\* one pass of the for loop of lines 493-524: the handler of the strategy's layer is
\* awaited inside try; attempted lists the strategies whose handler was called
ApplyStrategy(results, strategy, throws) ==
    IF throws
    THEN [results EXCEPT !.failed = @ + 1, !.attempted = Append(@, strategy)]
    ELSE [results EXCEPT !.success = @ + 1,
                         !.improvements = Append(@, strategy),
                         !.attempted = Append(@, strategy)]

RECURSIVE ApplyFrom(_, _, _, _)
ApplyFrom(strategies, throws, i, results) ==
    IF i > Len(strategies) THEN results
    ELSE ApplyFrom(strategies, throws, i + 1,
                   ApplyStrategy(results, strategies[i], throws[i]))

\* (mutation) the first handler that throws ends the loop
ApplyUntilFailure(strategies, throws) ==
    LET failing == {i \in DOMAIN strategies : throws[i]}
        last == IF failing = {} THEN Len(strategies)
                ELSE CHOOSE i \in failing : \A j \in failing : i <= j
    IN  ApplyFrom(SubSeq(strategies, 1, last), SubSeq(throws, 1, last), 1, NoResults)

\* applyEvolutionStrategies (lines 486-527); throws[i] tells whether the handler
\* awaited for strategies[i] rejects
ApplyEvolutionStrategies(strategies, throws) ==
    ApplyFrom(strategies, throws, 1, NoResults)

\* evaluateEvolution (lines 592-606)
EvaluateEvolution(results) ==
    [improvementPercentage |-> ImprovementPercentage,
     successfulStrategies |-> results.success,
     failedStrategies |-> results.failed]

\* a record numbered by the records stored so far, not by the cycle counter
LearningRecordNumberedByStore(o, evolutionStrategies, evaluation) ==
    [id |-> <<"evolution-cycle", Len(experiences) + 1>>,
     domain |-> "evolution",
     inputs |-> evolutionStrategies,
     outputs |-> evaluation.improvementPercentage]

\* the record consolidateLearning hands to storeExperience (lines 613-647); its id
\* is `evolution-cycle-${this.learningCycles}`
LearningRecord(o, evolutionStrategies, evaluation) ==
    [id |-> <<"evolution-cycle", o.learningCycles>>,
     domain |-> "evolution",
     inputs |-> evolutionStrategies,
     outputs |-> evaluation.improvementPercentage]

\* updateInternalStateBasedOnEvolution (lines 655-670)
UpdateInternalStateBasedOnEvolution(o, evaluation) ==
    [o EXCEPT !.evolutionRate = evaluation.improvementPercentage]

\* the steps a cycle runs before it awaits storeExperience
StepsToEvaluate == <<"analyze", "identify", "generate", "apply", "evaluate">>

\* the cycles that have started and neither completed nor been rejected
RunningCycles ==
    {i \in DOMAIN cycles : cycles[i].pc \in {"consolidateLearning", "updateInternalState"}}

\* a tick of the evolution timer (lines 299-301) runs executeEvolutionCycle, lines
\* 324-345, which tests nothing before it increments the counter; then analyze, identify, generate, apply and evaluate, whose
\* awaits settle without leaving the callback, up to the storeExperience call of
\* consolidateLearning (line 613), which is awaited
ExecuteEvolutionCycle(cqm, throws) ==
    /\ omega.evolutionTimers > 0
    /\ Len(cycles) < MaxTicks
    /\ LET counted == [omega EXCEPT !.learningCycles = @ + 1]
           analysis == AnalyzeSystemPerformance(counted, cqm)
           opportunities == IdentifyOptimizationOpportunities(analysis)
           evolutionStrategies == GenerateEvolutionStrategies(opportunities)
       IN  /\ DOMAIN throws = DOMAIN evolutionStrategies
           /\ LET evolutionResults ==
                        ApplyEvolutionStrategies(evolutionStrategies, throws)
                  evaluation == EvaluateEvolution(evolutionResults)
              IN  /\ omega' = counted
                  /\ cycles' = Append(cycles,
                        [pc |-> "consolidateLearning",
                         ran |-> StepsToEvaluate,
                         number |-> counted.learningCycles,
                         evolutionStrategies |-> evolutionStrategies,
                         evolutionResults |-> evolutionResults,
                         evaluation |-> evaluation,
                         record |-> LearningRecord(counted, evolutionStrategies,
                                                   evaluation)])
    /\ UNCHANGED <<chatVars, initializeCalls, experiences, systemAnalysis,
                   optimizationOpportunities, facadeVars, bootVars>>

\* consolidateLearning, lines 613-649: storeExperience settles; a rejection leaves
\* executeEvolutionCycle at line 345
ConsolidateLearning(i, ok) ==
    /\ i \in DOMAIN cycles
    /\ cycles[i].pc = "consolidateLearning"
    /\ experiences' = IF ok THEN StoreExperience(experiences, cycles[i].record)
                      ELSE experiences
    /\ cycles' = [cycles EXCEPT
            ![i].pc = IF ok THEN "updateInternalState" ELSE "rejected",
            ![i].ran = IF ok THEN Append(@, "consolidate") ELSE @]
    /\ UNCHANGED <<chatVars, omega, initializeCalls, systemAnalysis, optimizationOpportunities,
                   facadeVars, bootVars>>

\* executeEvolutionCycle, lines 347-350: the tracker update and the completion log
CompleteEvolutionCycle(i) ==
    /\ i \in DOMAIN cycles
    /\ cycles[i].pc = "updateInternalState"
    /\ omega' = UpdateInternalStateBasedOnEvolution(omega, cycles[i].evaluation)
    /\ cycles' = [cycles EXCEPT ![i].pc = "completed", ![i].ran = Append(@, "update")]
    /\ UNCHANGED <<chatVars, initializeCalls, experiences, systemAnalysis,
                   optimizationOpportunities, facadeVars, bootVars>>

\* the identify step on the analysis it is handed
Identify ==
    /\ systemAnalysis # Nothing
    /\ optimizationOpportunities = Nothing
    /\ optimizationOpportunities' =
            Some(IdentifyOptimizationOpportunities(systemAnalysis[1]))
    /\ UNCHANGED <<chatVars, omega, initializeCalls, cycles, experiences, systemAnalysis,
                   facadeVars, bootVars>>

\* ------------------------------------------------------------- specifications
\* no statistics call made, no task result
StatsIdle ==
    /\ taskResults = << >>
    /\ agentStatistics = Nothing
    /\ queueStatus = Nothing

\* nothing changed by an update method yet
NoChanges ==
    [lastHeartbeat |-> Nothing, removed |-> {}, evolution |-> Nothing,
     systemStatus |-> Nothing, applied |-> {}, restarts |-> 0]

NotBooted ==
    [pc |-> "idle", isBooted |-> FALSE, heartbeatTimers |-> 0, pollTimers |-> 0,
     rejection |-> Nothing]

\* the bootstrap singleton after construction (lines 60-65), no record stored
BootIdle ==
    /\ coordinationFile = Nothing
    /\ printed = Nothing
    /\ files = << >>
    /\ now = 0
    /\ boot = NotBooted
    /\ conflictReport = Nothing
    /\ changes = NoChanges
    /\ poll = PollIdle

\* the facade singleton after construction, nothing registered or submitted
FacadeIdle ==
    /\ registry = << >>
    /\ taskRecords = << >>
    /\ executing = << >>
    /\ submitResult = << >>
    /\ batchList = << >>
    /\ batchStatuses = << >>
    /\ health = Nothing
    /\ StatsIdle

\* ------------------------------------------------------------- chat server
\* src/examples/websocket/server.ts.  A string is the sequence of its characters;
\* a payload field the client left out is Nothing.  Message ids (random) and
\* timestamps are left out of the messages: no handler reads them.
SocketIds == 1..NumSockets

Usernames == {Nothing, Some(<< >>), Some(<<" ">>), Some(<<"a">>)}
Contents == {Nothing, Some(<< >>), Some(<<" ">>), Some(<<" ", "h", " ">>)}

\* JavaScript truthiness of an optional string: undefined and '' are falsy
Truthy(value) == value # Nothing /\ value[1] # << >>

\* a trim that removes nothing
Untrimmed(string) == string

\* String.prototype.trim: whitespace removed from both ends
RECURSIVE Trim(_)
Trim(string) ==
    IF string = << >> THEN << >>
    ELSE IF Head(string) = " " THEN Trim(Tail(string))
    ELSE IF string[Len(string)] = " " THEN Trim(SubSeq(string, 1, Len(string) - 1))
    ELSE string

\* createSystemMessage (lines 77-83)
CreateSystemMessage(content) ==
    [username |-> <<"System">>, content |-> content, type |-> "system"]

\* createUserMessage (lines 85-91)
CreateUserMessage(username, content) ==
    [username |-> username, content |-> content, type |-> "user"]

\* io.emit(event, data) reaches every socket; socket.emit reaches one
IoEmit(event, data) == [event |-> event, to |-> "all", data |-> data]
SocketEmit(socketId, event, data) == [event |-> event, to |-> socketId, data |-> data]

\* Array.from(users.values())
UsersList(map) == {map[id] : id \in DOMAIN map}

\* the handler that is running, for the log of received events
Received(event, socketId, data) == [event |-> event, socket |-> socketId, data |-> data]

\* io.on('connection') (lines 95-97): a socket id names one connection
Connection(socketId) ==
    /\ Len(received) < MaxEvents
    /\ sockets[socketId] = "unconnected"
    /\ sockets' = [sockets EXCEPT ![socketId] = "connected"]
    /\ received' = Append(received, Received("connection", socketId, Nothing))
    /\ UNCHANGED <<users, emitted, facadeVars, bootVars, omegaVars>>

\* the join handler (lines 111-131)
Join(socketId, username) ==
    /\ Len(received) < MaxEvents
    /\ sockets[socketId] = "connected"
    /\ received' = Append(received, Received("join", socketId, [username |-> username]))
    /\ IF ~Truthy(username)
       THEN /\ emitted' = Append(emitted,
                    SocketEmit(socketId, "error",
                        CreateSystemMessage(<<"Username is required to join.">>)))
            /\ users' = users
       ELSE LET user == [id |-> socketId, username |-> username[1]]
                joinMessage ==
                    CreateSystemMessage(<<username[1], " joined the chat room">>)
            IN  /\ users' = Put(users, socketId, user)
                /\ emitted' = emitted \o
                        <<IoEmit("user-joined", [user |-> user, message |-> joinMessage]),
                          SocketEmit(socketId, "users-list",
                                     [users |-> UsersList(users')])>>
    /\ UNCHANGED <<sockets, facadeVars, bootVars, omegaVars>>

\* the message handler (lines 134-143)
Message(socketId, content) ==
    /\ Len(received) < MaxEvents
    /\ sockets[socketId] = "connected"
    /\ received' = Append(received, Received("message", socketId, [content |-> content]))
    /\ emitted' =
            IF /\ socketId \in DOMAIN users
               /\ Truthy(content)
               /\ Trim(content[1]) # << >>
            THEN Append(emitted,
                    IoEmit("message",
                           CreateUserMessage(users[socketId].username, content[1])))
            ELSE emitted
    /\ UNCHANGED <<sockets, users, facadeVars, bootVars, omegaVars>>

\* the disconnect handler (lines 146-161); the socket gets no event afterwards
Disconnect(socketId) ==
    /\ Len(received) < MaxEvents
    /\ sockets[socketId] = "connected"
    /\ sockets' = [sockets EXCEPT ![socketId] = "disconnected"]
    /\ received' = Append(received, Received("disconnect", socketId, Nothing))
    /\ IF socketId \in DOMAIN users
       THEN LET user == users[socketId]
                leaveMessage ==
                    CreateSystemMessage(<<user.username, " left the chat room">>)
            IN  /\ users' = Drop(users, socketId)
                /\ emitted' = Append(emitted,
                        IoEmit("user-left",
                               [user |-> [id |-> socketId, username |-> user.username],
                                message |-> leaveMessage]))
       ELSE /\ users' = users
            /\ emitted' = emitted
    /\ UNCHANGED <<facadeVars, bootVars, omegaVars>>

\* the chat server when it starts listening (lines 58, 171): an empty users map
ChatIdle ==
    /\ sockets = [id \in SocketIds |-> "unconnected"]
    /\ users = << >>
    /\ emitted = << >>
    /\ received = << >>

\* the orchestrator singleton after construction (lines 97-105): no timer armed
Constructed ==
    [isInitialized |-> FALSE, learningCycles |-> 0, evolutionRate |-> 0,
     evolutionTimers |-> 0, coordinationTimers |-> 0]

OmegaIdle ==
    /\ omega = Constructed
    /\ initializeCalls = [c \in InitializeCalls |-> "idle"]
    /\ cycles = << >>
    /\ experiences = << >>
    /\ systemAnalysis = Nothing
    /\ optimizationOpportunities = Nothing

Init ==
    /\ FacadeIdle
    /\ BootIdle
    /\ OmegaIdle
    /\ ChatIdle

\* task submissions, alone or in a batch, with the executor's answers and cancels
SubmitNext ==
    \/ \E a \in AgentIds, dom \in Domains, prio \in Priorities : RegisterAgent(a, dom, prio)
    \/ \E t \in TaskIds, dom \in Domains, mr \in MaxRetriesInputs : SubmitTask(t, dom, mr)
    \/ \E t \in TaskIds : ExecSuccess(t)
    \/ \E t \in TaskIds : ExecFailure(t)
    \/ \E t \in TaskIds : ExecTimeout(t)
    \/ \E t \in TaskIds : Retry(t)
    \/ \E t \in TaskIds : CancelTask(t)
    \/ \E list \in BatchLists, dom \in Domains, mr \in MaxRetriesInputs :
            BatchSubmitTasks(list, dom, mr)
    \/ \E dom \in Domains, mr \in MaxRetriesInputs : BatchNext(dom, mr)

\* every facade call
Next ==
    \/ SubmitNext
    \/ \E a \in AgentIds : UnregisterAgent(a)
    \/ \E a \in AgentIds, s \in AgentStatuses : UpdateAgentStatus(a, s)

Spec == Init /\ [][Next]_vars

SpecSubmit == Init /\ [][SubmitNext]_vars

\* getSwarmHealth over every registry of up to MaxHealthAgents agents
HealthRegistry(idle, busy, offline) ==
    [a \in 1..(idle + busy + offline) |->
        [status |-> IF a <= idle THEN "idle"
                    ELSE IF a <= idle + busy THEN "busy" ELSE "offline",
         domain |-> 1, priority |-> 1]]

InitHealth ==
    /\ \E idle, busy, offline \in 0..MaxHealthAgents :
        /\ idle + busy + offline <= MaxHealthAgents
        /\ registry = HealthRegistry(idle, busy, offline)
    /\ taskRecords = << >>
    /\ executing = << >>
    /\ submitResult = << >>
    /\ batchList = << >>
    /\ batchStatuses = << >>
    /\ health = Nothing
    /\ StatsIdle
    /\ BootIdle
    /\ OmegaIdle
    /\ ChatIdle

NextHealth == GetSwarmHealth

SpecHealth == InitHealth /\ [][NextHealth]_vars

\* the statistics calls over every array of up to MaxResults task results
InitStats ==
    /\ registry = << >>
    /\ taskRecords = << >>
    /\ executing = << >>
    /\ submitResult = << >>
    /\ batchList = << >>
    /\ batchStatuses = << >>
    /\ health = Nothing
    /\ taskResults \in ResultArrays
    /\ agentStatistics = Nothing
    /\ queueStatus = Nothing
    /\ BootIdle
    /\ OmegaIdle
    /\ ChatIdle

NextStats == GetAgentStatistics \/ GetTaskQueueStatus

SpecStats == InitStats /\ [][NextStats]_vars

\* the records the peer may have left behind COORDINATION_FILE, and the files behind
\* the file API
ReadyA == <<"a.ts", ReadySuffix>>
ReadyB == <<"b.ts", ReadySuffix>>
PlainC == <<"c.ts">>
ActiveFileLists == {<< >>, <<PlainC>>, <<ReadyA>>, <<PlainC, ReadyA>>, <<ReadyA, ReadyB>>}

OldContent == <<"import ", "old">>
NewContent == <<"export ", "new">>
UnmarkedContent == <<"new">>
ImportOnlyContent == <<"import ", "new">>
UndefinedContent == <<"undefined", "new">>

StoredRecord(peerStatus, peerFiles) ==
    [version |-> "1.0",
     lastUpdate |-> 0,
     systemStatus |-> "active",
     enhancers |-> [e \in {Self, Peer} |->
        IF e = Self
        THEN [activeFiles |-> <<PlainC>>, lastHeartbeat |-> 0, status |-> "active"]
        ELSE [activeFiles |-> peerFiles, lastHeartbeat |-> 0, status |-> peerStatus]],
     mode |-> "dual-llm",
     evolution |-> [cycle |-> 1, status |-> "running", startTime |-> Some(0),
                    lastUpdate |-> Some(0)]]

StoredRecords ==
    {Nothing} \cup {Some(StoredRecord(st, fl)) :
                        st \in {"active", "idle"}, fl \in ActiveFileLists}

\* a.ts with a companion that has an export marker, an import marker, neither, or
\* neither and an 'undefined' token, or with none; b.ts with a companion that has an export marker
FileSystems ==
    {[path \in {OriginalPath(ReadyA), OriginalPath(ReadyB), CompanionPath(ReadyB)}
            \cup companions |->
        IF path = CompanionPath(ReadyA) THEN content
        ELSE IF path = CompanionPath(ReadyB) THEN NewContent
        ELSE OldContent] :
     companions \in {{}, {CompanionPath(ReadyA)}},
     content \in {NewContent, UnmarkedContent, ImportOnlyContent, UndefinedContent}}

\* boot() over every stored record
InitBoot ==
    /\ FacadeIdle
    /\ coordinationFile \in StoredRecords
    /\ printed = Nothing
    /\ files = << >>
    /\ now = 0
    /\ boot = NotBooted
    /\ conflictReport = Nothing
    /\ changes = NoChanges
    /\ poll = PollIdle
    /\ OmegaIdle
    /\ ChatIdle

NextBoot ==
    \/ \E t \in Instants : TimePasses(t)
    \/ Boot
    \/ InitializeCoordination
    \/ CheckForConflicts
    \/ \E ok \in BOOLEAN : InitializeOmegaSystem(ok)
    \/ HandleBootError

SpecBoot == InitBoot /\ [][NextBoot]_vars

\* boot(), shutdown() and restart() called one after another, in any order
NextLifecycle ==
    \/ NextBoot
    \/ Shutdown
    \/ Restart

SpecLifecycle == InitBoot /\ [][NextLifecycle]_vars

\* the timer callbacks and the update methods, from the moment startHeartbeat (lines
\* 210-217) and startEnhancerMonitoring (lines 222-229) have armed the two timers
TimersArmed ==
    [pc |-> "booted", isBooted |-> TRUE, heartbeatTimers |-> 1, pollTimers |-> 1,
     rejection |-> Nothing]

EvolutionStatuses == {"idle", "running", "paused"}

InitTimers ==
    /\ FacadeIdle
    /\ coordinationFile \in StoredRecords
    /\ printed = Nothing
    /\ files \in FileSystems
    /\ now = 0
    /\ boot = TimersArmed
    /\ conflictReport = Nothing
    /\ changes = NoChanges
    /\ poll = PollIdle
    /\ OmegaIdle
    /\ ChatIdle

NextTimers ==
    \/ \E t \in Instants : TimePasses(t)
    \/ UpdateHeartbeat
    \/ \E status \in EvolutionStatuses : UpdateEvolutionStatus(status, Nothing)
    \/ CheckForEnhancerUpdates
    \/ ProcessReadyFile
    \/ \E ok \in BOOLEAN : WriteTarget(ok)
    \/ \E ok \in BOOLEAN : WriteBackup(ok)
    \/ RemoveFileFromCoordination

SpecTimers == InitTimers /\ [][NextTimers]_vars


\* the peer-poll timer against a live peer: the peer is active, lists a.ts.ready and
\* refreshes its heartbeat every 60000 ms; the poll comes due every 120000 ms; at an
\* instant where both fall, either may come first
InitPeerPoll ==
    /\ FacadeIdle
    /\ coordinationFile = Some(StoredRecord("active", <<ReadyA>>))
    /\ printed = Nothing
    /\ files \in FileSystems
    /\ now = 0
    /\ boot = TimersArmed
    /\ conflictReport = Nothing
    /\ changes = NoChanges
    /\ poll = PollIdle
    /\ OmegaIdle
    /\ ChatIdle

NextPeerPoll ==
    \/ PeerRefreshes
    \/ ClockAdvances
    \/ PollTick
    \/ ProcessReadyFile
    \/ \E ok \in BOOLEAN : WriteTarget(ok)
    \/ \E ok \in BOOLEAN : WriteBackup(ok)
    \/ RemoveFileFromCoordination

\* every timer that is due fires and every callback runs on
SpecPeerPoll == InitPeerPoll /\ [][NextPeerPoll]_vars /\ WF_vars(NextPeerPoll)

\* initialize() called up to NumInitializeCalls times on the constructed singleton
NextInitialize ==
    \/ \E c \in InitializeCalls : Initialize(c)
    \/ \E c \in InitializeCalls, ok \in BOOLEAN : InitializeLayers(c, ok)
    \/ \E c \in InitializeCalls, ok \in BOOLEAN : RecordInitializationExperience(c, ok)

SpecInitialize == Init /\ [][NextInitialize]_vars

\* the evolution timer's callbacks, from the moment the private startEvolutionCycle
\* (lines 295-304) has armed the timer
EvolutionArmed ==
    [isInitialized |-> TRUE, learningCycles |-> 0, evolutionRate |-> 0,
     evolutionTimers |-> 1, coordinationTimers |-> 1]

\* what the state tracker may hold as identity.score when a cycle analyses
CycleCqmSamples == {800, 801}

ThrowsLists == UNION {[1..n -> BOOLEAN] : n \in 0..4}

InitEvolution ==
    /\ FacadeIdle
    /\ BootIdle
    /\ ChatIdle
    /\ omega = EvolutionArmed
    /\ initializeCalls = [c \in InitializeCalls |-> "resolved"]
    /\ cycles = << >>
    /\ experiences = << >>
    /\ systemAnalysis = Nothing
    /\ optimizationOpportunities = Nothing

NextEvolution ==
    \/ \E cqm \in CycleCqmSamples, throws \in ThrowsLists :
            ExecuteEvolutionCycle(cqm, throws)
    \/ \E i \in 1..MaxTicks, ok \in BOOLEAN : ConsolidateLearning(i, ok)
    \/ \E i \in 1..MaxTicks : CompleteEvolutionCycle(i)

SpecEvolution == InitEvolution /\ [][NextEvolution]_vars

\* the identify step over analyses at, below and above each threshold
CqmSamples == {799, 800, 801}
SuccessRateSamples == {800, 849, 850, 851}
EvolutionRateSamples == {0, 149, 150, 151}
KeysSamples == {14, 15, 16}

Analyses ==
    {[consciousness |-> [cqm |-> cqm],
      memory |-> [successRate |-> successRate],
      security |-> [keys |-> keys],
      learning |-> [cycles |-> 0, evolutionRate |-> evolutionRate]] :
     cqm \in CqmSamples, successRate \in SuccessRateSamples,
     evolutionRate \in EvolutionRateSamples, keys \in KeysSamples}

InitIdentify ==
    /\ FacadeIdle
    /\ BootIdle
    /\ ChatIdle
    /\ omega = Constructed
    /\ initializeCalls = [c \in InitializeCalls |-> "idle"]
    /\ cycles = << >>
    /\ experiences = << >>
    /\ systemAnalysis \in {Some(analysis) : analysis \in Analyses}
    /\ optimizationOpportunities = Nothing

NextIdentify == Identify

SpecIdentify == InitIdentify /\ [][NextIdentify]_vars

\* the chat server: sockets connect, join, send messages and disconnect
NextChat ==
    \/ \E socketId \in SocketIds : Connection(socketId)
    \/ \E socketId \in SocketIds, username \in Usernames : Join(socketId, username)
    \/ \E socketId \in SocketIds, content \in Contents : Message(socketId, content)
    \/ \E socketId \in SocketIds : Disconnect(socketId)

SpecChat == Init /\ [][NextChat]_vars

\* ------------------------------------------------------------- claims
HeldBy(a) == {t \in DOMAIN taskRecords : InProgress(t) /\ taskRecords[t].assignedAgent = Some(a)}

\* C1: under any interleaving of task submissions (single or batched, with the
\* executor's answers, retries and cancels between them) no agent is the assigned
\* agent of two in_progress TaskRecords at once.
C1_NoAgentSharedByTwoTasks ==
    \A a \in AgentIds : Cardinality(HeldBy(a)) <= 1

\* two submissions are in flight at once, each holding an agent
C1_TwoTasksInFlight ==
    \E t1, t2 \in DOMAIN taskRecords :
        /\ t1 # t2
        /\ Running(t1)
        /\ Running(t2)

\* C2 as claimed: a registered agent is busy iff exactly one in_progress TaskRecord
\* has it as assigned agent, after every facade call.
C2_BusyIffOneTaskInFlight ==
    \A a \in DOMAIN registry :
        registry[a].status = "busy" <=> Cardinality(HeldBy(a)) = 1

\* C3 as claimed: an agent's status only changes idle -> busy and busy -> idle, and
\* no updateAgentStatus call is accepted that sets a busy agent busy again.
C3_StatusCycle ==
    [][\A a \in AgentIds :
        (a \in DOMAIN registry /\ a \in DOMAIN registry') =>
            /\ \/ registry'[a].status = registry[a].status
               \/ registry[a].status = "idle" /\ registry'[a].status = "busy"
               \/ registry[a].status = "busy" /\ registry'[a].status = "idle"
            /\ registry[a].status = "busy" => ~UpdateAgentStatusResult(a, "busy")]_vars

\* C4: submitTask for a domain with no idle agent (none registered, or all busy or
\* offline) returns in that same step, with no attempt and no retry left pending, a
\* status of failed whose error is NoAgentAvailable, and no agent changes status.
C4_NoAgentAvailableFailsAtOnce ==
    [][\A t \in TaskIds, dom \in Domains, mr \in MaxRetriesInputs :
        (SubmitTask(t, dom, mr) /\ Candidates(registry, dom) = {}) =>
            /\ registry' = registry
            /\ t \notin DOMAIN executing'
            /\ taskRecords'[t].status = "failed"
            /\ Returned(t)'
            /\ submitResult'[t].status = "failed"
            /\ submitResult'[t].error = "NoAgentAvailable"]_vars

\* a submission was refused while the registry held agents, none of them idle
C4_RefusedWithAgentsRegistered ==
    \E t \in DOMAIN submitResult :
        /\ submitResult[t].error = "NoAgentAvailable"
        /\ submitResult[t].status = "failed"
        /\ DOMAIN executing = {}
        /\ DOMAIN registry # {}
        /\ \A a \in DOMAIN registry : registry[a].status # "idle"

C6_AtMostNPlusOneDispatches ==
    \A t \in DOMAIN executing :
        executing[t].maxRetries # Nothing =>
            executing[t].dispatches <= executing[t].maxRetries[1] + 1

\* C7 as claimed: a task whose last attempt timed out is reported with status timeout
\* by submitTask and by getTaskStatus.
C7_TimeoutIsReported ==
    \A t \in DOMAIN taskRecords :
        taskRecords[t].status = "timeout" =>
            /\ submitResult[t].status = "timeout"
            /\ GetTaskStatus(t).status = "timeout"

\* C8: batchSubmitTasks works through its list in order: a submission has started
\* only if every earlier one has ended, so at most one task of the batch is in
\* progress at any time, and the i-th status collected is the one the i-th
\* submission returned.
C8_BatchIsSequential ==
    /\ Cardinality({i \in 1..Len(batchList) : InProgress(batchList[i])}) <= 1
    /\ \A i, j \in 1..Len(batchList) :
        (j < i /\ batchList[i] \in DOMAIN taskRecords) => IsTerminal(batchList[j])
    /\ Len(batchStatuses) <= Len(batchList)
    /\ \A i \in 1..Len(batchStatuses) :
        /\ IsTerminal(batchList[i])
        /\ batchStatuses[i].taskId = batchList[i]
        /\ batchStatuses[i] = submitResult[batchList[i]]

\* a batch of two has returned; its second task was in progress after the first ended
C8_BatchOfTwoReturned ==
    /\ Len(batchList) >= 2
    /\ Len(batchStatuses) = Len(batchList)
    /\ taskRecords[batchList[1]].status = "completed"
    /\ taskRecords[batchList[2]].status = "completed"

Advised(h, advice) == \E i \in 1..Len(h.recommendedActions) : h.recommendedActions[i] = advice

NineOfTenBusy ==
    /\ health # Nothing
    /\ health[1].totalCapacity = 10
    /\ health[1].currentLoad = 9

\* C9 as claimed: with 10 agents of which 9 are busy getSwarmHealth returns
\* loadPercentage = 90, healthy = false and the near-capacity advisory.
C9_NineOfTenAdvisesNearCapacity ==
    NineOfTenBusy =>
        /\ health[1].loadPercentage = 9000
        /\ ~health[1].healthy
        /\ Advised(health[1], NearCapacityAdvice)

\* C9, amended: with 10 agents of which 9 are busy getSwarmHealth returns
\* loadPercentage = 90, healthy = false and the investigate-failures advisory, but
\* not the near-capacity advisory, which needs loadPercentage > 90.
C9_NineOfTenIsUnhealthyNotNearCapacity ==
    NineOfTenBusy =>
        /\ health[1].loadPercentage = 9000
        /\ ~health[1].healthy
        /\ Advised(health[1], UnhealthyAdvice)
        /\ ~Advised(health[1], NearCapacityAdvice)

\* getSwarmHealth has answered for a registry of 10 agents, 9 of them busy
C9_NineOfTenAnswered == NineOfTenBusy /\ CountStatus(registry, {"busy"}) = 9

\* C10: for every registry, healthy = (busy / total * 100 < 80 and active > 0), the
\* quotient taken as 0 for an empty registry; the investigate-failures advisory is
\* given iff healthy is false and the low-utilization advisory iff
\* active < 0.5 * total; the loadPercentage returned is the quotient to two decimals.
C10_HealthFormula ==
    health # Nothing =>
        LET h == health[1]
            total == Cardinality(DOMAIN registry)
            busy == Cardinality({a \in DOMAIN registry : registry[a].status = "busy"})
            active == Cardinality({a \in DOMAIN registry : registry[a].status # "offline"})
        IN  /\ h.healthy <=> ((total = 0 \/ 100 * busy < 80 * total) /\ active > 0)
            /\ Advised(h, UnhealthyAdvice) <=> ~h.healthy
            /\ Advised(h, LowUtilizationAdvice) <=> 2 * active < total
            /\ total = 0 => h.loadPercentage = 0
            /\ total > 0 =>
                /\ 2 * (h.loadPercentage * total - 10000 * busy) <= total
                /\ 2 * (10000 * busy - h.loadPercentage * total) < total

\* getSwarmHealth has answered for a healthy swarm with less than half of its agents
\* active
C10_HealthyButLowUtilization ==
    /\ health # Nothing
    /\ health[1].healthy
    /\ Advised(health[1], LowUtilizationAdvice)

\* the successful records of an array
RECURSIVE SumSuccessfulDurations(_)
SumSuccessfulDurations(results) ==
    IF results = << >> THEN 0
    ELSE (IF ResultSuccess(results[1]) THEN results[1].duration ELSE 0)
         + SumSuccessfulDurations(Tail(results))

\* C11 as claimed: getAgentStatistics reports tasksCompleted as the number of
\* successful records and averageTaskDuration as the mean duration of the successful
\* records only (0 when there is none): the durations of failed records do not count.
C11_AverageOverSuccessfulOnly ==
    agentStatistics # Nothing =>
        LET st == agentStatistics[1]
            successful == CountSuccessful(taskResults)
        IN  /\ st.tasksCompleted = successful
            /\ IF successful = 0
               THEN st.averageTaskDuration.num = 0
               ELSE st.averageTaskDuration.num * successful
                        = SumSuccessfulDurations(taskResults) * st.averageTaskDuration.den

\* C12 as claimed: getTaskQueueStatus counts every record in exactly one of the four
\* counts, so the four counts sum to the number of records.
C12_QueueCountsPartition ==
    queueStatus # Nothing =>
        LET q == queueStatus[1]
        IN  q.pendingTasks + q.inProgressTasks + q.completedTasks + q.failedTasks
                = Len(taskResults)

\* the stored record's entry of the peer, and the age of its heartbeat
StoredPeer == ReadCoordinationFile(coordinationFile, now).enhancers[Peer]
StoredPeerAge == now - StoredPeer.lastHeartbeat

\* C13 as claimed: whatever the interleaving of the heartbeat, the peer-poll's
\* activeFiles removal and the evolution-status update, once they have finished the
\* stored record reflects each of their changes.
C13_NoUpdateLost ==
    poll.pc = "idle" =>
        /\ changes.lastHeartbeat # Nothing =>
            /\ coordinationFile # Nothing
            /\ coordinationFile[1].enhancers[Self].lastHeartbeat = changes.lastHeartbeat[1]
        /\ \A filePath \in changes.removed :
            /\ coordinationFile # Nothing
            /\ IndexOf(coordinationFile[1].enhancers[Peer].activeFiles, filePath) = 0
        /\ changes.evolution # Nothing =>
            /\ coordinationFile # Nothing
            /\ coordinationFile[1].evolution.status = changes.evolution[1]

\* C14: a heartbeat leaves version, systemStatus, mode, the peer's whole entry,
\* self.activeFiles, self.status and the evolution state of the stored record exactly
\* as they were; only self.lastHeartbeat and lastUpdate may differ.
C14_HeartbeatFrame ==
    [][(UpdateHeartbeat /\ coordinationFile # Nothing) =>
        /\ coordinationFile' # Nothing
        /\ LET before == coordinationFile[1]
               after == coordinationFile'[1]
           IN  /\ after.version = before.version
               /\ after.systemStatus = before.systemStatus
               /\ after.mode = before.mode
               /\ after.enhancers[Peer] = before.enhancers[Peer]
               /\ after.enhancers[Self].activeFiles = before.enhancers[Self].activeFiles
               /\ after.enhancers[Self].status = before.enhancers[Self].status
               /\ after.evolution = before.evolution]_vars

\* a heartbeat has run, later than the record was stored, on a stored record whose
\* peer holds files
C14_HeartbeatRanOnStoredRecord ==
    /\ changes.lastHeartbeat # Nothing
    /\ changes.lastHeartbeat[1] > 0
    /\ coordinationFile # Nothing
    /\ coordinationFile[1].enhancers[Peer].activeFiles # << >>

\* C15 as claimed: with the heartbeat timer armed, every heartbeat tick leaves the
\* stored record's self.lastHeartbeat set to the time of that tick.
C15_HeartbeatIsStored ==
    [][UpdateHeartbeat =>
        /\ coordinationFile' # Nothing
        /\ coordinationFile'[1].enhancers[Self].lastHeartbeat = now]_vars

\* C16: checkForConflicts reports a conflict exactly when peer.status = active, the
\* heartbeat age is below 300000 ms and peer.activeFiles is not empty (at 250000 it
\* does, at 300000 and 301000 it does not); it leaves the stored record alone, boot
\* goes on to its next phase and the facade is untouched.
C16_ConflictReport ==
    [][CheckForConflicts =>
        /\ conflictReport' # Nothing
        /\ conflictReport'[1].logged = "Conflict detected" <=>
                /\ StoredPeer.status = "active"
                /\ StoredPeerAge < 300000
                /\ StoredPeer.activeFiles # << >>
        /\ StoredPeerAge \in {300000, 301000} =>
                conflictReport'[1].logged # "Conflict detected"
        /\ (StoredPeerAge = 250000 /\ StoredPeer.status = "active"
                /\ StoredPeer.activeFiles # << >>) =>
                conflictReport'[1].logged = "Conflict detected"
        /\ coordinationFile' = coordinationFile
        /\ boot'.pc = "initializeOmegaSystem"
        /\ UNCHANGED facadeVars]_vars

\* a conflict has been reported at age 250000 and boot has gone on
C16_ConflictReportedAt250000 ==
    /\ conflictReport # Nothing
    /\ conflictReport[1].heartbeatAge = 250000
    /\ conflictReport[1].logged = "Conflict detected"
    /\ boot.pc = "handleBootError"

\* C17: the peer poll hands to the pipeline only paths of peer.activeFiles that end in
\* the ready suffix, and only when the peer is active with a heartbeat younger than
\* 60000 ms; at age 60000 or more, or with no ready path, nothing is processed and
\* neither the files nor the stored record change; files change in the pipeline only.
C17_PollOnlyFreshReadyFiles ==
    [][/\ CheckForEnhancerUpdates =>
            /\ \A i \in DOMAIN poll'.queue :
                /\ EndsWithReady(poll'.queue[i])
                /\ IndexOf(StoredPeer.activeFiles, poll'.queue[i]) # 0
            /\ poll'.pc # "idle" =>
                /\ StoredPeerAge < 60000
                /\ StoredPeer.status = "active"
                /\ poll'.queue # << >>
            /\ (\/ StoredPeerAge >= 60000
                \/ \A i \in DOMAIN StoredPeer.activeFiles :
                        ~EndsWithReady(StoredPeer.activeFiles[i])) =>
                /\ poll'.pc = "idle"
                /\ files' = files
                /\ coordinationFile' = coordinationFile
       /\ files' # files =>
            /\ poll.pc \in {"writeTarget", "writeBackup"}
            /\ EndsWithReady(Head(poll.queue))]_vars

\* the poll found the peer fresh and a ready path is in the pipeline
C17_ReadyArtifactInPipeline ==
    /\ poll.pc = "writeTarget"
    /\ Head(poll.queue) = ReadyA
    /\ now = 59999

\* C18 as claimed: initializeCoordination leaves a fresh record stored, with
\* self.status = active, peer.status = idle, mode = dual, evolution.status = idle,
\* evolution.cycle = 0 and both activeFiles empty, whatever was stored before.
C18_InitializeStoresFreshRecord ==
    [][InitializeCoordination =>
        /\ coordinationFile' # Nothing
        /\ LET stored == coordinationFile'[1]
           IN  /\ stored.enhancers[Self].status = "active"
               /\ stored.enhancers[Peer].status = "idle"
               /\ stored.mode = "dual-llm"
               /\ stored.evolution.status = "idle"
               /\ stored.evolution.cycle = 0
               /\ stored.enhancers[Self].activeFiles = << >>
               /\ stored.enhancers[Peer].activeFiles = << >>]_vars

\* C19 as claimed: in the pipeline the target never holds the new content while the
\* content it had before has not been written to <target>.backup.
C19_BackupBeforeTarget ==
    (/\ poll.pc \in {"writeTarget", "writeBackup", "removeFileFromCoordination"}
     /\ poll.targetWritten) =>
        ReadFile(files, BackupPath(OriginalPath(Head(poll.queue)))) = poll.current

\* C20 as claimed: the pipeline never gets past its two writes with one of them done
\* and the other not, and when a write failed the artifact's path is not removed from
\* the stored peer.activeFiles.
C20_NoPartialApplication ==
    [][/\ poll.pc = "removeFileFromCoordination" =>
            (poll.targetWritten <=> poll.backupWritten)
       /\ (RemoveFileFromCoordination /\ ~(poll.targetWritten /\ poll.backupWritten)) =>
            coordinationFile' = coordinationFile]_vars

\* the artifact the pipeline is working on
InPipeline == poll.pc \in {"writeTarget", "writeBackup", "removeFileFromCoordination"}

\* C21 as claimed: content that lacks the import marker or lacks the export marker is
\* rejected, so the content the pipeline applies to a target has both.
C21_BothMarkersRequired ==
    InPipeline =>
        /\ Includes(poll.enhanced, "import ")
        /\ Includes(poll.enhanced, "export ")

\* C22: when the companion content fails validation (it has neither marker, or it
\* names undefined) processReadyFile writes no file, stores no record and goes to the
\* next file; the artifact's path is still in the stored peer.activeFiles.
C22_InvalidArtifactChangesNothing ==
    [][(/\ ProcessReadyFile
        /\ LET content == ReadFile(files, CompanionPath(Head(poll.queue)))
           IN  \/ ~Includes(content, "import ") /\ ~Includes(content, "export ")
               \/ Includes(content, "undefined")) =>
            /\ files' = files
            /\ coordinationFile' = coordinationFile
            /\ changes' = changes
            /\ poll'.pc \in {"idle", "processReadyFile"}
            /\ coordinationFile' # Nothing
            /\ IndexOf(coordinationFile'[1].enhancers[Peer].activeFiles,
                       Head(poll.queue)) # 0]_vars

\* a.ts.ready was turned down for its unmarked companion and the loop is at b.ts.ready
C22_UnmarkedArtifactSkipped ==
    /\ poll.pc = "processReadyFile"
    /\ Head(poll.queue) = ReadyB
    /\ ReadFile(files, CompanionPath(ReadyA)) = UnmarkedContent
    /\ ReadFile(files, OriginalPath(ReadyA)) = OldContent
    /\ BackupPath(OriginalPath(ReadyA)) \notin DOMAIN files
    /\ ReadyA \notin changes.applied

\* C23 as claimed: when validation passed and both writes succeeded, at the end of the
\* pipeline <target>.backup holds what the target held before, the target holds the
\* companion content and the path is gone from the stored peer.activeFiles.
C23_AppliedAndRemoved ==
    [][(RemoveFileFromCoordination /\ poll.targetWritten /\ poll.backupWritten) =>
        LET filePath == Head(poll.queue)
        IN  /\ ReadFile(files', BackupPath(OriginalPath(filePath))) = poll.current
            /\ ReadFile(files', OriginalPath(filePath)) = poll.enhanced
            /\ \/ coordinationFile' = Nothing
               \/ IndexOf(coordinationFile'[1].enhancers[Peer].activeFiles, filePath) = 0]_vars

\* C24 as claimed: an artifact is applied at most once over any number of peer-poll
\* ticks, and once <target>.backup is written its content stays.
C24_ConsumedOnce ==
    [][/\ (ProcessReadyFile /\ poll'.pc = "writeTarget") =>
            Head(poll.queue) \notin changes.applied
       /\ \A filePath \in changes.applied :
            LET backup == BackupPath(OriginalPath(filePath))
            IN  backup \in DOMAIN files => files'[backup] = files[backup]]_vars

\* C30: updateAgentStatus for an id that is not registered returns false (the
\* registry's NotFound, caught by the facade) and leaves the registry as it was;
\* unregisterAgent for an absent id changes nothing and returns true.
C30_AbsentAgentCalls ==
    \A a \in AgentIds :
        ~RegistryHas(registry, a) =>
            /\ \A s \in AgentStatuses :
                  /\ ~UpdateAgentStatusResult(a, s)
                  /\ RegistryAfterUpdateAgentStatus(a, s) = registry
            /\ RegistryUnregister(registry, a) = registry
            /\ UnregisterAgentResult(a)

\* C30 witness: one agent is registered and another id is not, so that a call for
\* the absent id meets a registry that has something to lose.
C30_AbsentBesideRegistered ==
    /\ RegistryHas(registry, 1)
    /\ ~RegistryHas(registry, 2)
    /\ registry[1].status = "busy"

\* C25 as claimed: while an evolution cycle is running (started, neither completed
\* nor rejected) no step starts another cycle or increments learningCycles, and at
\* most one cycle is running.
C25_NoCycleStartsDuringCycle ==
    [][RunningCycles # {} =>
        /\ omega'.learningCycles = omega.learningCycles
        /\ Len(cycles') = Len(cycles)
        /\ Cardinality(RunningCycles') <= 1]_vars

\* C26 as claimed: once initialize() has set isInitialized, the 60000 ms evolution
\* timer is armed (without it no tick comes and learningCycles stays at 0).
C26_EvolutionTimerArmed ==
    omega.isInitialized => omega.evolutionTimers >= 1

\* C27: the identify step returns, for each row of the threshold table, one
\* opportunity of that row's type and priority if the row's condition holds
\* (cqm > 0.80, success rate < 0.85, evolution rate < 0.15, keys > 15, none of them
\* at the boundary itself) and none if it fails, and nothing else.
C27_ThresholdTable ==
    optimizationOpportunities # Nothing =>
        LET analysis == systemAnalysis[1]
            opps == optimizationOpportunities[1]
            Yields(layer, type, priority) ==
                Cardinality({i \in DOMAIN opps :
                                opps[i] = Opportunity(layer, type, priority)})
            Due(cond) == IF cond THEN 1 ELSE 0
        IN  /\ Yields("consciousness", "optimize_emergence_detection", "high")
                    = Due(analysis.consciousness.cqm > 800)
            /\ Yields("memory", "improve_experience_quality", "high")
                    = Due(analysis.memory.successRate < 850)
            /\ Yields("learning", "accelerate_evolution", "high")
                    = Due(analysis.learning.evolutionRate < 150)
            /\ Yields("security", "consolidate_keys", "medium")
                    = Due(analysis.security.keys > 15)
            /\ Len(opps) = Due(analysis.consciousness.cqm > 800)
                            + Due(analysis.memory.successRate < 850)
                            + Due(analysis.learning.evolutionRate < 150)
                            + Due(analysis.security.keys > 15)

\* C27 witness: success rate 0.80 with the three other metrics at their boundary
\* values; the identify step returned improve_experience_quality at high, alone.
C27_OnlyExperienceQuality ==
    /\ systemAnalysis # Nothing
    /\ systemAnalysis[1].memory.successRate = 800
    /\ systemAnalysis[1].consciousness.cqm = 800
    /\ systemAnalysis[1].learning.evolutionRate = 150
    /\ systemAnalysis[1].security.keys = 15
    /\ optimizationOpportunities =
            Some(<<Opportunity("memory", "improve_experience_quality", "high")>>)

\* C28: in every cycle the apply step called the handler of every strategy, in list
\* order, whatever handlers threw; success and failed sum to the number of
\* strategies; the evaluation carries these counts, the record for consolidate is
\* made of it, and a cycle that completed ran consolidate and the tracker update.
C28_HandlerFailureNotFatal ==
    \A i \in DOMAIN cycles :
        LET cycle == cycles[i]
            results == cycle.evolutionResults
        IN  /\ results.attempted = cycle.evolutionStrategies
            /\ results.success + results.failed = Len(cycle.evolutionStrategies)
            /\ Len(results.improvements) = results.success
            /\ cycle.evaluation.successfulStrategies = results.success
            /\ cycle.evaluation.failedStrategies = results.failed
            /\ cycle.record.inputs = cycle.evolutionStrategies
            /\ cycle.pc \in {"consolidateLearning", "updateInternalState",
                              "completed", "rejected"}
            /\ cycle.pc = "completed" =>
                    /\ cycle.ran = StepsToEvaluate \o <<"consolidate", "update">>
                    /\ omega.evolutionRate = cycle.evaluation.improvementPercentage

\* C28 witness: a cycle of three strategies whose first handler threw and whose
\* other two did not has completed, and its record is stored.
C28_CompletedDespiteFailure ==
    \E i \in DOMAIN cycles :
        /\ Len(cycles[i].evolutionStrategies) = 3
        /\ cycles[i].evolutionResults.failed = 1
        /\ cycles[i].evolutionResults.improvements =
                SubSeq(cycles[i].evolutionStrategies, 2, 3)
        /\ cycles[i].pc = "completed"
        /\ \E k \in DOMAIN experiences : experiences[k] = cycles[i].record

\* C29: the stored evolution records are as many as the cycles whose storeExperience
\* call has succeeded, which are the completed cycles and those standing between
\* their store and their tracker update; so with no cycle standing there, records
\* and completed cycles are equally many.  A cycle is at its tracker update only
\* with apply, evaluate and the store behind it, and every stored record is the
\* record of such a cycle.
C29_OneRecordPerCompletedCycle ==
    LET stored == {k \in DOMAIN experiences : experiences[k].domain = "evolution"}
        completed == {i \in DOMAIN cycles : cycles[i].pc = "completed"}
        updating == {i \in DOMAIN cycles : cycles[i].pc = "updateInternalState"}
    IN  /\ Cardinality(stored) = Cardinality(completed) + Cardinality(updating)
        /\ updating = {} => Cardinality(stored) = Cardinality(completed)
        /\ \A i \in updating : cycles[i].ran = StepsToEvaluate \o <<"consolidate">>
        /\ \A k \in stored : \E i \in completed \cup updating :
                experiences[k] = cycles[i].record
        /\ \A i \in DOMAIN cycles :
                cycles[i].pc = "consolidateLearning" =>
                    \A k \in stored : experiences[k].id # cycles[i].record.id

\* C29 witness: two cycles have completed and each stored its record: two records
\* of different ids, two completed cycles.
C29_TwoCyclesTwoRecords ==
    /\ Len(cycles) = 2
    /\ \A i \in DOMAIN cycles : cycles[i].pc = "completed"
    /\ Len(experiences) = 2
    /\ experiences[1].id # experiences[2].id

\* C31: validateEnhancements evaluates every rule: the error list holds the marker
\* violation exactly when the content has neither marker and the 'undefined'
\* violation exactly when the content has that token, so content with both defects
\* gets both errors; and valid is true exactly when the error list is empty.
C31_AllViolationsReturned ==
    \A path \in DOMAIN files :
        LET content == files[path]
            result == ValidateEnhancements(content)
            Listed(error) == \E i \in DOMAIN result.errors : result.errors[i] = error
            unmarked == ~Includes(content, "export ") /\ ~Includes(content, "import ")
        IN  /\ result.valid <=> result.errors = << >>
            /\ Listed("Invalid TypeScript code") <=> unmarked
            /\ Listed("Undefined references detected") <=> Includes(content, "undefined")
            /\ (unmarked /\ Includes(content, "undefined")) =>
                    /\ Len(result.errors) >= 2
                    /\ ~result.valid

\* C31 witness: the companion of a.ts has neither marker and an 'undefined' token;
\* processReadyFile has validated it and gone on to the next ready file.
C31_TwoDefectsValidated ==
    /\ poll.pc = "processReadyFile"
    /\ Head(poll.queue) = ReadyB
    /\ ReadFile(files, CompanionPath(ReadyA)) = UndefinedContent
    /\ ValidateEnhancements(UndefinedContent).errors =
            <<"Invalid TypeScript code", "Undefined references detected">>
    /\ ReadFile(files, OriginalPath(ReadyA)) = OldContent

\* C32 as claimed: when the read of the current target content has failed, the
\* pipeline writes nothing: no step of applyEnhancements changes a file after it.
C32_FailedReadWritesNothing ==
    [][(InPipeline /\ poll.currentReadFailed) => files' = files]_vars

\* C33 as claimed: with the peer active, refreshing its heartbeat every 60000 ms and
\* listing a.ts.ready, some peer-poll tick hands a.ts.ready to processReadyFile.
C33_LivePeerEventuallyProcessed ==
    <>(poll.pc = "processReadyFile" /\ Head(poll.queue) = ReadyA)

\* C34 as claimed: whatever initialize() calls are made, overlapping or not, the
\* evolution timer and the peer-check timer are each started at most once.
C34_TimersStartedAtMostOnce ==
    /\ omega.evolutionTimers <= 1
    /\ omega.coordinationTimers <= 1

C36_NoConflictAtBoot ==
    [][CheckForConflicts =>
        LET coordination == ReadCoordinationFile(coordinationFile, now)
        IN  /\ coordination.enhancers[Peer].status = "idle"
            /\ coordination.enhancers[Peer].activeFiles = << >>
            /\ conflictReport'[1].logged # "Conflict detected"]_vars

\* C37 as claimed: when boot() has rejected, it rejected with 'System boot failed',
\* isBooted is false, no heartbeat or peer-poll timer is armed, and the stored
\* record's systemStatus is error.
C37_FailedBootLeavesErrorStatus ==
    boot.pc = "rejected" =>
        /\ boot.rejection = Some("System boot failed")
        /\ ~boot.isBooted
        /\ boot.heartbeatTimers = 0
        /\ boot.pollTimers = 0
        /\ coordinationFile # Nothing
        /\ coordinationFile[1].systemStatus = "error"

\* C38: every started cycle holds the number the counter took at its tick, and the
\* record it hands to storeExperience has the id evolution-cycle-<that number>; no
\* two stored evolution records share an id, every stored id is the number of a
\* started cycle, and every completed cycle's number is among the stored ids.
C38_RecordCarriesCycleNumber ==
    LET stored == {k \in DOMAIN experiences : experiences[k].domain = "evolution"}
    IN  /\ \A i \in DOMAIN cycles :
                /\ cycles[i].number = i
                /\ cycles[i].record.id = <<"evolution-cycle", cycles[i].number>>
        /\ \A k, l \in stored : experiences[k].id = experiences[l].id => k = l
        /\ \A k \in stored : \E i \in DOMAIN cycles :
                experiences[k].id = <<"evolution-cycle", cycles[i].number>>
        /\ \A i \in DOMAIN cycles :
                cycles[i].pc = "completed" =>
                    \E k \in stored :
                        experiences[k].id = <<"evolution-cycle", cycles[i].number>>

\* C38 witness: the second cycle started while the first was awaiting its store,
\* and has completed with record evolution-cycle-2 while the first still waits.
C38_SecondCycleOvertakesFirst ==
    /\ Len(cycles) = 2
    /\ cycles[1].pc = "consolidateLearning"
    /\ cycles[2].pc = "completed"
    /\ \E k \in DOMAIN experiences : experiences[k].id = <<"evolution-cycle", 2>>
    /\ \A k \in DOMAIN experiences : experiences[k].id # <<"evolution-cycle", 1>>

\* the sockets whose join carried a non-empty username, and those that disconnected
JoinedWithUsername(log) ==
    {log[i].socket : i \in {j \in DOMAIN log :
        /\ log[j].event = "join"
        /\ log[j].data.username # Nothing
        /\ Len(log[j].data.username[1]) > 0}}

Disconnected(log) ==
    {log[i].socket : i \in {j \in DOMAIN log : log[j].event = "disconnect"}}

\* a content that is absent, empty, or whitespace only
Blank(content) ==
    \/ content = Nothing
    \/ \A i \in DOMAIN content[1] : content[1][i] = " "

\* C39: after every handler the users map holds exactly the sockets that have
\* joined with a non-empty username and have not disconnected; a handler emits a
\* message event only when it is the message handler of a socket in the map with
\* a non-blank content, and then to all with the stored username and the content
\* as sent; a handler emits user-left only when it is the disconnect handler of a
\* socket that was in the map.
C39_UsersMapAndBroadcasts ==
    [][/\ DOMAIN users' = JoinedWithUsername(received') \ Disconnected(received')
       /\ LET handled == received'[Len(received')]
              sent == SubSeq(emitted', Len(emitted) + 1, Len(emitted'))
          IN  \A k \in DOMAIN sent :
                /\ sent[k].event = "message" =>
                        /\ handled.event = "message"
                        /\ handled.socket \in DOMAIN users
                        /\ ~Blank(handled.data.content)
                        /\ sent[k].to = "all"
                        /\ sent[k].data.username = users[handled.socket].username
                        /\ sent[k].data.content = handled.data.content[1]
                /\ sent[k].event = "user-left" =>
                        /\ handled.event = "disconnect"
                        /\ handled.socket \in DOMAIN users
                        /\ sent[k].data.user.id = handled.socket]_vars

\* C39 witness: a joined socket sent a whitespace-only message that was not
\* broadcast and a message that was, then disconnected and was announced as
\* having left; the map is empty again.
C39_BlankDroppedThenLeft ==
    /\ \E i \in DOMAIN received :
            /\ received[i].event = "message"
            /\ received[i].data.content = Some(<<" ">>)
            /\ received[i].socket \in JoinedWithUsername(received)
    /\ Len(SelectSeq(emitted, LAMBDA e : e.event = "message")) = 1
    /\ \E k \in DOMAIN emitted : emitted[k].event = "user-left"
    /\ users = << >>

====
